---------------------------- MODULE Spec2Model ----------------------------
(***************************************************************************)
(* Model of the taxo-mx-mcp server: the tool catalog, the argument         *)
(* validators, the dispatcher (CallToolRequestSchema handler) of both      *)
(* transports and the upstream client (TaxoMxApiClient).                   *)
(*                                                                         *)
(* Text is a sequence of symbols.  A literal of the source (a path prefix, *)
(* a key, a message) is one symbol; text supplied by the caller or by the  *)
(* upstream is a sequence of one-character symbols.  JSON.stringify,       *)
(* JSON.parse and URLSearchParams are computed symbol by symbol.           *)
(***************************************************************************)
EXTENDS Integers, Sequences, FiniteSets, TLC

VARIABLES
  transport,  \* the entry point that runs: "http" or "stdio"
  client,     \* the TaxoMxApiClient the handlers are bound to
  pc,         \* "idle", "fetching" while the handler awaits fetch, "replied"
  call,       \* the tool call being served, or served last
  outbound,   \* the fetch calls made for that tool call
  upstream,   \* how fetch settled for that tool call
  reply,      \* what the latest handler returned
  delivered,  \* for each tool call served so far, whether its envelope was an error
  http,       \* the HTTP requests in flight or answered, by arrival slot
  proc,       \* the standard-I/O process: stage, argv, environment, exit code
  pipeline    \* the tool calls read from standard input, by arrival, and the
              \* arrival numbers of the envelopes written to standard output

vars ==
  <<transport, client, pc, call, outbound, upstream, reply, delivered, http, proc, pipeline>>

---------------------------------------------------------------------------
(* Bounds of the model *)

\* largest number of keys in which an argument object differs from the
\* minimal valid argument object of its tool
MaxVariations == 2

\* largest number of tool calls one behaviour serves
MaxCalls == 1

---------------------------------------------------------------------------
(* JavaScript / JSON values *)

JUndefined == [t |-> "undefined"]
JNull == [t |-> "null"]
JBool(b) == [t |-> "bool", b |-> b]
JNum(n) == [t |-> "num", n |-> n]
JStr(s) == [t |-> "str", s |-> s]
JArr(a) == [t |-> "arr", a |-> a]
\* an object is the sequence of its <<key, value>> properties in insertion order
JObj(o) == [t |-> "obj", o |-> o]

\* the numbers that occur as JSON numbers in the model
Nums == (0 .. 9) \cup {200, 404}

NumSyms == {ToString(n) : n \in Nums}

NumOf(c) == CHOOSE n \in Nums : ToString(n) = c

RECURSIVE Flatten(_)
Flatten(ss) == IF ss = <<>> THEN <<>> ELSE Head(ss) \o Flatten(Tail(ss))

Spaces(n) == [i \in 1 .. n |-> " "]

\* the characters JSON.stringify escapes inside a string
EscapeSym(c) ==
  CASE c = "\"" -> <<"\\", "\"">>
    [] c = "\\" -> <<"\\", "\\">>
    [] c = "\n" -> <<"\\", "n">>
    [] OTHER -> <<c>>

Quote(s) == <<"\"">> \o Flatten([i \in 1 .. Len(s) |-> EscapeSym(s[i])]) \o <<"\"">>

\* properties whose value is undefined are left out by JSON.stringify
RECURSIVE Defined(_)
Defined(o) ==
  IF o = <<>> THEN <<>>
  ELSE IF Head(o)[2].t = "undefined" THEN Defined(Tail(o))
       ELSE <<Head(o)>> \o Defined(Tail(o))

\* JSON.stringify(v, null, gap) at indentation cur; gap = 0 is the compact form
RECURSIVE Stringify(_, _, _)
RECURSIVE StringifyItems(_, _, _, _)
StringifyItems(items, isObj, gap, cur) ==
  LET sep == IF gap = 0 THEN <<>> ELSE <<"\n">> \o Spaces(cur)
      one(it) == IF isObj
                 THEN Quote(it[1]) \o <<":">> \o (IF gap = 0 THEN <<>> ELSE <<" ">>)
                        \o Stringify(it[2], gap, cur)
                 ELSE Stringify(IF it.t = "undefined" THEN JNull ELSE it, gap, cur)
  IN IF Len(items) = 1 THEN sep \o one(items[1])
     ELSE sep \o one(Head(items)) \o <<",">> \o StringifyItems(Tail(items), isObj, gap, cur)

Stringify(v, gap, cur) ==
  CASE v.t = "null" -> <<"null">>
    [] v.t = "bool" -> IF v.b THEN <<"true">> ELSE <<"false">>
    [] v.t = "num" -> <<ToString(v.n)>>
    [] v.t = "str" -> Quote(v.s)
    [] v.t = "arr" ->
         IF v.a = <<>> THEN <<"[", "]">>
         ELSE <<"[">> \o StringifyItems(v.a, FALSE, gap, cur + gap)
                \o (IF gap = 0 THEN <<>> ELSE <<"\n">> \o Spaces(cur)) \o <<"]">>
    [] v.t = "obj" ->
         IF Defined(v.o) = <<>> THEN <<"{", "}">>
         ELSE <<"{">> \o StringifyItems(Defined(v.o), TRUE, gap, cur + gap)
                \o (IF gap = 0 THEN <<>> ELSE <<"\n">> \o Spaces(cur)) \o <<"}">>

\* JSON.stringify(v, null, 2)
JSONStringifyPretty(v) == Stringify(v, 2, 0)

\* JSON.stringify(v)
JSONStringify(v) == Stringify(v, 0, 0)

---------------------------------------------------------------------------
(* JSON.parse *)

Fail == [ok |-> FALSE, v |-> JNull, i |-> 0]

RECURSIVE SkipWs(_, _)
SkipWs(s, i) ==
  IF i <= Len(s) /\ s[i] \in {" ", "\n"} THEN SkipWs(s, i + 1) ELSE i

\* the string whose opening quote precedes position i
RECURSIVE ParseChars(_, _, _)
ParseChars(s, i, acc) ==
  IF i > Len(s) THEN Fail
  ELSE IF s[i] = "\"" THEN [ok |-> TRUE, v |-> JStr(acc), i |-> i + 1]
  ELSE IF s[i] = "\n" THEN Fail
  ELSE IF s[i] = "\\" THEN
         IF i + 1 > Len(s) THEN Fail
         ELSE IF s[i + 1] \in {"\"", "\\"} THEN ParseChars(s, i + 2, Append(acc, s[i + 1]))
         ELSE IF s[i + 1] = "n" THEN ParseChars(s, i + 2, Append(acc, "\n"))
         ELSE Fail
  ELSE ParseChars(s, i + 1, Append(acc, s[i]))

RECURSIVE ParseValue(_, _)
RECURSIVE ParseElements(_, _, _)
RECURSIVE ParseMembers(_, _, _)

\* the elements of an array, position i is after "[" or ","
ParseElements(s, i, acc) ==
  LET e == ParseValue(s, SkipWs(s, i))
      j == SkipWs(s, e.i)
  IN IF ~e.ok \/ j > Len(s) THEN Fail
     ELSE IF s[j] = "," THEN ParseElements(s, j + 1, Append(acc, e.v))
     ELSE IF s[j] = "]" THEN [ok |-> TRUE, v |-> JArr(Append(acc, e.v)), i |-> j + 1]
     ELSE Fail

\* the members of an object, position i is after "{" or ","
ParseMembers(s, i, acc) ==
  LET k == SkipWs(s, i)
      key == IF k <= Len(s) /\ s[k] = "\"" THEN ParseChars(s, k + 1, <<>>) ELSE Fail
      c == SkipWs(s, key.i)
      m == IF key.ok /\ c <= Len(s) /\ s[c] = ":" THEN ParseValue(s, SkipWs(s, c + 1)) ELSE Fail
      j == SkipWs(s, m.i)
  IN IF ~m.ok \/ j > Len(s) THEN Fail
     ELSE IF s[j] = "," THEN ParseMembers(s, j + 1, Append(acc, <<key.v.s, m.v>>))
     ELSE IF s[j] = "}" THEN [ok |-> TRUE, v |-> JObj(Append(acc, <<key.v.s, m.v>>)), i |-> j + 1]
     ELSE Fail

ParseValue(s, i) ==
  IF i > Len(s) THEN Fail
  ELSE CASE s[i] = "null" -> [ok |-> TRUE, v |-> JNull, i |-> i + 1]
         [] s[i] = "true" -> [ok |-> TRUE, v |-> JBool(TRUE), i |-> i + 1]
         [] s[i] = "false" -> [ok |-> TRUE, v |-> JBool(FALSE), i |-> i + 1]
         [] s[i] \in NumSyms -> [ok |-> TRUE, v |-> JNum(NumOf(s[i])), i |-> i + 1]
         [] s[i] = "\"" -> ParseChars(s, i + 1, <<>>)
         [] s[i] = "[" ->
              LET j == SkipWs(s, i + 1)
              IN IF j <= Len(s) /\ s[j] = "]" THEN [ok |-> TRUE, v |-> JArr(<<>>), i |-> j + 1]
                 ELSE ParseElements(s, i + 1, <<>>)
         [] s[i] = "{" ->
              LET j == SkipWs(s, i + 1)
              IN IF j <= Len(s) /\ s[j] = "}" THEN [ok |-> TRUE, v |-> JObj(<<>>), i |-> j + 1]
                 ELSE ParseMembers(s, i + 1, <<>>)
         [] OTHER -> Fail

\* JSON.parse(text): ok is FALSE where JSON.parse throws a SyntaxError
JSONParse(text) ==
  LET r == ParseValue(text, SkipWs(text, 1))
  IN IF r.ok /\ SkipWs(text, r.i) = Len(text) + 1 THEN [ok |-> TRUE, v |-> r.v]
     ELSE [ok |-> FALSE, v |-> JNull]

---------------------------------------------------------------------------
(* Tool definitions *)

\* TOOLS of the HTTP entry point
HttpTOOLS ==
  <<
    [name |-> "extract_compliance_opinion",
     description |->
       "Requests extraction of SAT compliance opinion (Opinión de Cumplimiento) for a taxpayer by RFC. This is an async operation.",
     inputSchema |->
       [type |-> "object",
        properties |->
          <<[name |-> "rfc", type |-> "string",
           description |-> "Taxpayer RFC (Registro Federal de Contribuyentes)"]>>,
        required |-> <<"rfc">>]],
    [name |-> "extract_compliance_opinion_by_accountant",
     description |->
       "Requests extraction of compliance opinions for all taxpayers of an accountant. This is an async operation.",
     inputSchema |->
       [type |-> "object",
        properties |->
          <<[name |-> "accountantId", type |-> "string",
           description |-> "Internal accountant ID"]>>,
        required |-> <<"accountantId">>]],
    [name |-> "extract_compliance_opinion_all",
     description |->
       "Requests extraction of compliance opinions for all valid taxpayers in the platform. This is an async operation.",
     inputSchema |->
       [type |-> "object",
        properties |->
          <<>>]],
    [name |-> "get_compliance_opinion",
     description |->
       "Retrieves the SAT compliance opinion (Opinión de Cumplimiento) for a taxpayer. Returns the latest extracted opinion.",
     inputSchema |->
       [type |-> "object",
        properties |->
          <<[name |-> "rfc", type |-> "string",
           description |-> "Taxpayer RFC"]>>,
        required |-> <<"rfc">>]],
    [name |-> "extract_tax_status",
     description |->
       "Requests extraction of tax status certificate (Constancia de Situación Fiscal) for a taxpayer by RFC. This is an async operation.",
     inputSchema |->
       [type |-> "object",
        properties |->
          <<[name |-> "rfc", type |-> "string",
           description |-> "Taxpayer RFC"]>>,
        required |-> <<"rfc">>]],
    [name |-> "extract_tax_status_by_accountant",
     description |->
       "Requests extraction of tax status certificates for all taxpayers of an accountant. This is an async operation.",
     inputSchema |->
       [type |-> "object",
        properties |->
          <<[name |-> "accountantId", type |-> "string",
           description |-> "Internal accountant ID"]>>,
        required |-> <<"accountantId">>]],
    [name |-> "extract_tax_status_all",
     description |->
       "Requests extraction of tax status certificates for all valid taxpayers. This is an async operation.",
     inputSchema |->
       [type |-> "object",
        properties |->
          <<>>]],
    [name |-> "get_tax_status",
     description |->
       "Retrieves the tax status certificate (Constancia de Situación Fiscal) for a taxpayer. Returns the latest extracted certificate.",
     inputSchema |->
       [type |-> "object",
        properties |->
          <<[name |-> "rfc", type |-> "string",
           description |-> "Taxpayer RFC"]>>,
        required |-> <<"rfc">>]],
    [name |-> "extract_cfdi",
     description |->
       "Requests extraction of CFDI (electronic invoices) for a taxpayer. Can extract issued, received, or all invoices within a date range. This is an async operation.",
     inputSchema |->
       [type |-> "object",
        properties |->
          <<[name |-> "rfc", type |-> "string",
           description |-> "Taxpayer RFC"],
            [name |-> "startDate", type |-> "string",
           description |-> "Start date in YYYY-MM-DD format"],
            [name |-> "endDate", type |-> "string",
           description |-> "End date in YYYY-MM-DD format"],
            [name |-> "extractionType", type |-> "string", enum |-> <<"all", "issued", "received">>,
           description |-> "Type of invoices to extract: all, issued (emitidos), or received (recibidos)"]>>,
        required |-> <<"rfc", "startDate", "endDate", "extractionType">>]],
    [name |-> "extract_cfdi_by_accountant",
     description |->
       "Requests extraction of CFDI for all clients of an accountant within a date range. This is an async operation.",
     inputSchema |->
       [type |-> "object",
        properties |->
          <<[name |-> "accountantId", type |-> "string",
           description |-> "Internal accountant ID"],
            [name |-> "startDate", type |-> "string",
           description |-> "Start date in YYYY-MM-DD format"],
            [name |-> "endDate", type |-> "string",
           description |-> "End date in YYYY-MM-DD format"]>>,
        required |-> <<"accountantId", "startDate", "endDate">>]],
    [name |-> "get_monthly_tax_report",
     description |->
       "Retrieves the monthly tax report for a taxpayer. Includes ISR, IVA, and other tax calculations.",
     inputSchema |->
       [type |-> "object",
        properties |->
          <<[name |-> "rfc", type |-> "string",
           description |-> "Taxpayer RFC"],
            [name |-> "year", type |-> "string",
           description |-> "Year (e.g., \"2025\")"],
            [name |-> "month", type |-> "string",
           description |-> "Month in MM format (e.g., \"04\" for April)"]>>,
        required |-> <<"rfc", "year", "month">>]],
    [name |-> "get_contacts",
     description |->
       "Retrieves the contacts associated with a taxpayer.",
     inputSchema |->
       [type |-> "object",
        properties |->
          <<[name |-> "rfc", type |-> "string",
           description |-> "Taxpayer RFC"]>>,
        required |-> <<"rfc">>]],
    [name |-> "get_invoices",
     description |->
       "Retrieves invoices/documents for a taxpayer with optional filters. Supports filtering by type, date, status, category, and more.",
     inputSchema |->
       [type |-> "object",
        properties |->
          <<[name |-> "rfc", type |-> "string",
           description |-> "Taxpayer RFC"],
            [name |-> "type", type |-> "string",
           description |-> "Invoice type filter"],
            [name |-> "year", type |-> "string",
           description |-> "Filter by year"],
            [name |-> "month", type |-> "string",
           description |-> "Filter by month"],
            [name |-> "status", type |-> "string",
           description |-> "Invoice status filter"],
            [name |-> "category", type |-> "string",
           description |-> "Category filter"],
            [name |-> "search", type |-> "string",
           description |-> "Search term"],
            [name |-> "issuer", type |-> "string",
           description |-> "Filter by issuer"],
            [name |-> "paymentType", type |-> "string",
           description |-> "Payment type filter"],
            [name |-> "paymentWay", type |-> "string",
           description |-> "Payment method filter"]>>,
        required |-> <<"rfc">>]],
    [name |-> "get_categories",
     description |->
       "Retrieves all categories defined in Taxo for invoice classification.",
     inputSchema |->
       [type |-> "object",
        properties |->
          <<>>]],
    [name |-> "create_taxpayer",
     description |->
       "Creates a new taxpayer under an accountant. Requires the RFC and CIEC (SAT password) to enable document extraction.",
     inputSchema |->
       [type |-> "object",
        properties |->
          <<[name |-> "accountantId", type |-> "string",
           description |-> "Internal accountant ID"],
            [name |-> "rfc", type |-> "string",
           description |-> "Taxpayer RFC"],
            [name |-> "ciec", type |-> "string",
           description |-> "CIEC password for SAT access"]>>,
        required |-> <<"accountantId", "rfc", "ciec">>]]
  >>

\* TOOLS of the standard-I/O entry point
StdioTOOLS ==
  <<
    [name |-> "extract_compliance_opinion",
     description |->
       "Requests extraction of SAT compliance opinion (Opinión de Cumplimiento) for a taxpayer by RFC. This is an async operation.",
     inputSchema |->
       [type |-> "object",
        properties |->
          <<[name |-> "rfc", type |-> "string",
           description |-> "Taxpayer RFC (Registro Federal de Contribuyentes)"]>>,
        required |-> <<"rfc">>]],
    [name |-> "extract_compliance_opinion_by_accountant",
     description |->
       "Requests extraction of compliance opinions for all taxpayers of an accountant. This is an async operation.",
     inputSchema |->
       [type |-> "object",
        properties |->
          <<[name |-> "accountantId", type |-> "string",
           description |-> "Internal accountant ID"]>>,
        required |-> <<"accountantId">>]],
    [name |-> "extract_compliance_opinion_all",
     description |->
       "Requests extraction of compliance opinions for all valid taxpayers in the platform. This is an async operation.",
     inputSchema |->
       [type |-> "object",
        properties |->
          <<>>]],
    [name |-> "get_compliance_opinion",
     description |->
       "Retrieves the SAT compliance opinion (Opinión de Cumplimiento) for a taxpayer. Returns the latest extracted opinion.",
     inputSchema |->
       [type |-> "object",
        properties |->
          <<[name |-> "rfc", type |-> "string",
           description |-> "Taxpayer RFC"]>>,
        required |-> <<"rfc">>]],
    [name |-> "extract_tax_status",
     description |->
       "Requests extraction of tax status certificate (Constancia de Situación Fiscal) for a taxpayer by RFC. This is an async operation.",
     inputSchema |->
       [type |-> "object",
        properties |->
          <<[name |-> "rfc", type |-> "string",
           description |-> "Taxpayer RFC"]>>,
        required |-> <<"rfc">>]],
    [name |-> "extract_tax_status_by_accountant",
     description |->
       "Requests extraction of tax status certificates for all taxpayers of an accountant. This is an async operation.",
     inputSchema |->
       [type |-> "object",
        properties |->
          <<[name |-> "accountantId", type |-> "string",
           description |-> "Internal accountant ID"]>>,
        required |-> <<"accountantId">>]],
    [name |-> "extract_tax_status_all",
     description |->
       "Requests extraction of tax status certificates for all valid taxpayers. This is an async operation.",
     inputSchema |->
       [type |-> "object",
        properties |->
          <<>>]],
    [name |-> "get_tax_status",
     description |->
       "Retrieves the tax status certificate (Constancia de Situación Fiscal) for a taxpayer. Returns the latest extracted certificate.",
     inputSchema |->
       [type |-> "object",
        properties |->
          <<[name |-> "rfc", type |-> "string",
           description |-> "Taxpayer RFC"]>>,
        required |-> <<"rfc">>]],
    [name |-> "extract_cfdi",
     description |->
       "Requests extraction of CFDI (electronic invoices) for a taxpayer. Can extract issued, received, or all invoices within a date range. This is an async operation.",
     inputSchema |->
       [type |-> "object",
        properties |->
          <<[name |-> "rfc", type |-> "string",
           description |-> "Taxpayer RFC"],
            [name |-> "startDate", type |-> "string",
           description |-> "Start date in YYYY-MM-DD format"],
            [name |-> "endDate", type |-> "string",
           description |-> "End date in YYYY-MM-DD format"],
            [name |-> "extractionType", type |-> "string", enum |-> <<"all", "issued", "received">>,
           description |-> "Type of invoices to extract: all, issued (emitidos), or received (recibidos)"]>>,
        required |-> <<"rfc", "startDate", "endDate", "extractionType">>]],
    [name |-> "extract_cfdi_by_accountant",
     description |->
       "Requests extraction of CFDI for all clients of an accountant within a date range. This is an async operation.",
     inputSchema |->
       [type |-> "object",
        properties |->
          <<[name |-> "accountantId", type |-> "string",
           description |-> "Internal accountant ID"],
            [name |-> "startDate", type |-> "string",
           description |-> "Start date in YYYY-MM-DD format"],
            [name |-> "endDate", type |-> "string",
           description |-> "End date in YYYY-MM-DD format"]>>,
        required |-> <<"accountantId", "startDate", "endDate">>]],
    [name |-> "get_monthly_tax_report",
     description |->
       "Retrieves the monthly tax report for a taxpayer. Includes ISR, IVA, and other tax calculations.",
     inputSchema |->
       [type |-> "object",
        properties |->
          <<[name |-> "rfc", type |-> "string",
           description |-> "Taxpayer RFC"],
            [name |-> "year", type |-> "string",
           description |-> "Year (e.g., \"2025\")"],
            [name |-> "month", type |-> "string",
           description |-> "Month in MM format (e.g., \"04\" for April)"]>>,
        required |-> <<"rfc", "year", "month">>]],
    [name |-> "get_contacts",
     description |->
       "Retrieves the contacts associated with a taxpayer.",
     inputSchema |->
       [type |-> "object",
        properties |->
          <<[name |-> "rfc", type |-> "string",
           description |-> "Taxpayer RFC"]>>,
        required |-> <<"rfc">>]],
    [name |-> "get_invoices",
     description |->
       "Retrieves invoices/documents for a taxpayer with optional filters. Supports filtering by type, date, status, category, and more.",
     inputSchema |->
       [type |-> "object",
        properties |->
          <<[name |-> "rfc", type |-> "string",
           description |-> "Taxpayer RFC"],
            [name |-> "type", type |-> "string",
           description |-> "Invoice type filter"],
            [name |-> "year", type |-> "string",
           description |-> "Filter by year"],
            [name |-> "month", type |-> "string",
           description |-> "Filter by month"],
            [name |-> "status", type |-> "string",
           description |-> "Invoice status filter"],
            [name |-> "category", type |-> "string",
           description |-> "Category filter"],
            [name |-> "search", type |-> "string",
           description |-> "Search term"]>>,
        required |-> <<"rfc">>]],
    [name |-> "get_categories",
     description |->
       "Retrieves all categories defined in Taxo for invoice classification.",
     inputSchema |->
       [type |-> "object",
        properties |->
          <<>>]],
    [name |-> "create_taxpayer",
     description |->
       "Creates a new taxpayer under an accountant. Requires the RFC and CIEC (SAT password) to enable document extraction.",
     inputSchema |->
       [type |-> "object",
        properties |->
          <<[name |-> "accountantId", type |-> "string",
           description |-> "Internal accountant ID"],
            [name |-> "rfc", type |-> "string",
           description |-> "Taxpayer RFC"],
            [name |-> "ciec", type |-> "string",
           description |-> "CIEC password for SAT access"]>>,
        required |-> <<"accountantId", "rfc", "ciec">>]]
  >>

\* a catalog that lists a tool the dispatcher has no case for
TOOLS_listsUnhandled(t) ==
  Append(IF t = "http" THEN HttpTOOLS ELSE StdioTOOLS,
         [name |-> "delete_taxpayer", description |-> "Deletes a taxpayer.",
          inputSchema |-> [type |-> "object", properties |-> <<>>]])

TOOLS(t) == IF t = "http" THEN HttpTOOLS ELSE StdioTOOLS

---------------------------------------------------------------------------
(* Input schemas (zod) *)

\* z.string(), z.string().optional(), z.enum([...])
ZString(k) == [key |-> k, kind |-> "string", optional |-> FALSE, values |-> {}]
ZOptional(k) == [key |-> k, kind |-> "string", optional |-> TRUE, values |-> {}]
ZEnum(k, vs) == [key |-> k, kind |-> "enum", optional |-> FALSE, values |-> vs]

rfcSchema == <<ZString("rfc")>>

accountantIdSchema == <<ZString("accountantId")>>

\* extractionType validated as a plain string
extractCfdiSchema_noEnum ==
  <<ZString("rfc"), ZString("startDate"), ZString("endDate"), ZString("extractionType")>>

extractCfdiSchema ==
  <<ZString("rfc"), ZString("startDate"), ZString("endDate"),
    ZEnum("extractionType", {<<"all">>, <<"issued">>, <<"received">>})>>

extractCfdiAccountantSchema ==
  <<ZString("accountantId"), ZString("startDate"), ZString("endDate")>>

taxReportSchema == <<ZString("rfc"), ZString("year"), ZString("month")>>

HttpGetInvoicesSchema ==
  <<ZString("rfc"), ZOptional("type"), ZOptional("year"), ZOptional("month"),
    ZOptional("status"), ZOptional("category"), ZOptional("search"),
    ZOptional("issuer"), ZOptional("paymentType"), ZOptional("paymentWay")>>

StdioGetInvoicesSchema ==
  <<ZString("rfc"), ZOptional("type"), ZOptional("year"), ZOptional("month"),
    ZOptional("status"), ZOptional("category"), ZOptional("search")>>

getInvoicesSchema(t) == IF t = "http" THEN HttpGetInvoicesSchema ELSE StdioGetInvoicesSchema

createTaxpayerSchema == <<ZString("accountantId"), ZString("rfc"), ZString("ciec")>>

\* does the raw value of one declared key pass its field schema
FieldAccepts(fd, f) ==
  IF fd.key \in DOMAIN f
  THEN /\ f[fd.key].t = "str"
       /\ fd.kind = "enum" => f[fd.key].s \in fd.values
  ELSE fd.optional

\* the keys of the shape that the input carries, in shape order: zod builds
\* its output from the shape, so a key the shape does not declare is stripped
RECURSIVE ShapeOutput(_, _)
ShapeOutput(schema, f) ==
  IF schema = <<>> THEN <<>>
  ELSE (IF Head(schema).key \in DOMAIN f
        THEN << <<Head(schema).key, f[Head(schema).key]>> >> ELSE <<>>)
       \o ShapeOutput(Tail(schema), f)

\* a strict object schema: an undeclared key is an error
ZodParse_strict(schema, args) ==
  IF args.t # "obj" THEN [ok |-> FALSE, data |-> <<>>]
  ELSE IF /\ \A i \in 1 .. Len(schema) : FieldAccepts(schema[i], args.f)
          /\ DOMAIN args.f \subseteq {schema[i].key : i \in 1 .. Len(schema)}
       THEN [ok |-> TRUE, data |-> ShapeOutput(schema, args.f)]
       ELSE [ok |-> FALSE, data |-> <<>>]

\* schema.parse(args): ok is FALSE where parse throws a ZodError
ZodParse(schema, args) ==
  IF args.t # "obj" THEN [ok |-> FALSE, data |-> <<>>]
  ELSE IF \A i \in 1 .. Len(schema) : FieldAccepts(schema[i], args.f)
       THEN [ok |-> TRUE, data |-> ShapeOutput(schema, args.f)]
       ELSE [ok |-> FALSE, data |-> <<>>]

\* input.k of a parsed object
Prop(data, k) ==
  IF \E i \in 1 .. Len(data) : data[i][1] = k
  THEN data[CHOOSE i \in 1 .. Len(data) : data[i][1] = k][2]
  ELSE JUndefined

---------------------------------------------------------------------------
(* Upstream this *)

\* an error that does not keep the response body
TaxoMxApiError_noDetails(statusCode, message, details) ==
  [class |-> "TaxoMxApiError", statusCode |-> statusCode, message |-> message,
   details |-> JUndefined]

TaxoMxApiError(statusCode, message, details) ==
  [class |-> "TaxoMxApiError", statusCode |-> statusCode, message |-> message,
   details |-> details]

\* any other Error: ZodError, SyntaxError, TypeError, Error
Error(name, message) == [class |-> "Error", name |-> name, message |-> message]

TaxoMxApiClient(options) ==
  [token |-> options.token,
   appBaseUrl |-> IF "appBaseUrl" \in DOMAIN options THEN options.appBaseUrl
                  ELSE "https://app.taxo.co",
   demoBaseUrl |-> IF "demoBaseUrl" \in DOMAIN options THEN options.demoBaseUrl
                   ELSE "https://demo.taxo.co"]

\* the fetch call of request(): url, method, headers and serialized body
Request(this, baseUrl, path, options) ==
  [url |-> <<baseUrl>> \o path,
   method |-> options.method,
   headers |-> [Accept |-> <<"application/json">>,
                ContentType |-> <<"application/json">>,
                Authorization |-> <<"Bearer ">> \o this.token],
   body |-> IF options.body.t = "undefined" THEN JUndefined
            ELSE JStr(JSONStringify(options.body))]

Get == [method |-> "GET", body |-> JUndefined]
Post(body) == [method |-> "POST", body |-> body]

extractComplianceOpinionByRfc(this, rfc) ==
  Request(this, this.appBaseUrl, <<"/api/extractions/oc/client">>,
          Post(JObj(<< <<<<"rfc">>, rfc>> >>)))

\* the body key left in camel case
extractComplianceOpinionByAccountant_camelCase(this, accountantId) ==
  Request(this, this.appBaseUrl, <<"/api/extractions/oc/accountant">>,
          Post(JObj(<< <<<<"accountantId">>, accountantId>> >>)))

extractComplianceOpinionByAccountant(this, accountantId) ==
  Request(this, this.appBaseUrl, <<"/api/extractions/oc/accountant">>,
          Post(JObj(<< <<<<"accountant_id">>, accountantId>> >>)))

\* an extract-all that posts an empty object
extractComplianceOpinionAll_emptyBody(this) ==
  Request(this, this.appBaseUrl, <<"/api/extractions/oc/extract-all">>,
          Post(JObj(<<>>)))

extractComplianceOpinionAll(this) ==
  Request(this, this.appBaseUrl, <<"/api/extractions/oc/extract-all">>,
          Post(JUndefined))

getComplianceOpinion(this, rfc) ==
  Request(this, this.appBaseUrl, <<"/api/extractions/oc/client/">> \o rfc.s, Get)

extractTaxStatusByRfc(this, rfc) ==
  Request(this, this.appBaseUrl, <<"/api/extractions/csf/client">>,
          Post(JObj(<< <<<<"rfc">>, rfc>> >>)))

extractTaxStatusByAccountant(this, accountantId) ==
  Request(this, this.appBaseUrl, <<"/api/extractions/csf/accountant">>,
          Post(JObj(<< <<<<"accountant_id">>, accountantId>> >>)))

extractTaxStatusAll(this) ==
  Request(this, this.appBaseUrl, <<"/api/extractions/csf/extract-all">>,
          Post(JUndefined))

getTaxStatus(this, rfc) ==
  Request(this, this.appBaseUrl, <<"/api/extractions/csf/client/">> \o rfc.s, Get)

extractCfdiByRfc(this, params) ==
  Request(this, this.appBaseUrl, <<"/api/extractions/cfdi/client">>,
          Post(JObj(<< <<<<"rfc">>, Prop(params, "rfc")>>,
                       <<<<"start_date">>, Prop(params, "startDate")>>,
                       <<<<"end_date">>, Prop(params, "endDate")>>,
                       <<<<"extraction_type">>, Prop(params, "extractionType")>> >>)))

extractCfdiByAccountant(this, params) ==
  Request(this, this.appBaseUrl, <<"/api/extractions/cfdi/accountant">>,
          Post(JObj(<< <<<<"accountant_id">>, Prop(params, "accountantId")>>,
                       <<<<"start_date">>, Prop(params, "startDate")>>,
                       <<<<"end_date">>, Prop(params, "endDate")>> >>)))

getMonthlyTaxReport(this, rfc, year, month) ==
  Request(this, this.demoBaseUrl,
          <<"/api/v1/tax-reports/monthly/">> \o rfc.s \o <<"/">> \o year.s
            \o <<"/">> \o month.s, Get)

\* getContacts sent to the primary host
getContacts_primaryHost(this, rfc) ==
  Request(this, this.appBaseUrl, <<"/api/v1/contacts/">> \o rfc.s, Get)

getContacts(this, rfc) ==
  Request(this, this.demoBaseUrl, <<"/api/v1/contacts/">> \o rfc.s, Get)

\* application/x-www-form-urlencoded serialization of one symbol
UrlEncodeSym(c) ==
  CASE c = " " -> "+"
    [] c = "/" -> "%2F"
    [] c = "?" -> "%3F"
    [] c = "&" -> "%26"
    [] c = "=" -> "%3D"
    [] c = "\"" -> "%22"
    [] c = "%" -> "%25"
    [] OTHER -> c

UrlEncode(s) == [i \in 1 .. Len(s) |-> UrlEncodeSym(s[i])]

\* URLSearchParams: append(key, value) for each truthy value, then toString()
RECURSIVE SearchParams(_)
SearchParams(filters) ==
  IF filters = <<>> THEN <<>>
  ELSE LET key == Head(filters)[1]
           value == Head(filters)[2]
           rest == SearchParams(Tail(filters))
       IN IF value.t = "str" /\ value.s # <<>>
          THEN UrlEncode(<<key>>) \o <<"=">> \o UrlEncode(value.s)
                 \o (IF rest = <<>> THEN <<>> ELSE <<"&">> \o rest)
          ELSE rest

getInvoices(this, rfc, filters) ==
  LET query == SearchParams(filters)
      path == <<"/api/v1/invoices/">> \o rfc.s
                \o (IF query # <<>> THEN <<"?">> \o query ELSE <<>>)
  IN Request(this, this.demoBaseUrl, path, Get)

getCategories(this) ==
  Request(this, this.demoBaseUrl, <<"/api/categorization/categories">>, Get)

\* a createTaxpayer that percent-encodes the path argument
createTaxpayer_encoded(this, accountantId, rfc, ciec) ==
  Request(this, this.appBaseUrl,
          <<"/api/v1/accountant/">> \o UrlEncode(accountantId.s) \o <<"/clients">>,
          Post(JObj(<< <<<<"rfc">>, rfc>>, <<<<"ciec">>, ciec>> >>)))

createTaxpayer(this, accountantId, rfc, ciec) ==
  Request(this, this.appBaseUrl,
          <<"/api/v1/accountant/">> \o accountantId.s \o <<"/clients">>,
          Post(JObj(<< <<<<"rfc">>, rfc>>, <<<<"ciec">>, ciec>> >>)))

---------------------------------------------------------------------------
(* Response handling of request() *)

Return(v) == [kind |-> "return", v |-> v]
Throw(e) == [kind |-> "throw", error |-> e]

ResponseOk(response) == response.status \in 200 .. 299

\* a response.json() that falls back to the text of the body
ResponseJson_lenient(response) ==
  IF response.bodyUsed
  THEN Throw(Error("TypeError", <<"Body is unusable: Body has already been read">>))
  ELSE IF JSONParse(response.body).ok THEN Return(JSONParse(response.body).v)
       ELSE Return(JStr(response.body))

\* response.json(): reads the body, then parses what it read
ResponseJson(response) ==
  IF response.bodyUsed
  THEN Throw(Error("TypeError", <<"Body is unusable: Body has already been read">>))
  ELSE IF JSONParse(response.body).ok THEN Return(JSONParse(response.body).v)
       ELSE Throw(Error("SyntaxError", <<"Unexpected token in JSON">>))

\* response.text()
ResponseText(response) ==
  IF response.bodyUsed
  THEN Throw(Error("TypeError", <<"Body is unusable: Body has already been read">>))
  ELSE Return(JStr(response.body))

Consumed(response) == [response EXCEPT !.bodyUsed = TRUE]

\* what request() does once fetch has resolved with a response
RequestSettle(response) ==
  IF ~ResponseOk(response)
  THEN LET parsed == ResponseJson(response)
           errorDetails == IF parsed.kind = "return" THEN parsed
                           ELSE ResponseText(Consumed(response))
       IN IF errorDetails.kind = "throw" THEN errorDetails
          ELSE Throw(TaxoMxApiError(response.status,
                                    <<"API request failed: ">> \o response.statusText,
                                    errorDetails.v))
  ELSE ResponseJson(response)

---------------------------------------------------------------------------
(* Dispatcher: the CallToolRequestSchema handler *)

Fetch(req) == [kind |-> "fetch", req |-> req]

ZodError == Error("ZodError", <<"[zod issues]">>)

\* the switch on the tool name up to the await of the cl call
Dispatch(t, cl, name, args) ==
  LET with(schema, method(_)) ==
        IF ZodParse(schema, args).ok THEN Fetch(method(ZodParse(schema, args).data))
        ELSE Throw(ZodError)
      m1(input) == extractComplianceOpinionByRfc(cl, Prop(input, "rfc"))
      m2(input) == extractComplianceOpinionByAccountant(cl, Prop(input, "accountantId"))
      m4(input) == getComplianceOpinion(cl, Prop(input, "rfc"))
      m5(input) == extractTaxStatusByRfc(cl, Prop(input, "rfc"))
      m6(input) == extractTaxStatusByAccountant(cl, Prop(input, "accountantId"))
      m8(input) == getTaxStatus(cl, Prop(input, "rfc"))
      m9(input) == extractCfdiByRfc(cl, input)
      m10(input) == extractCfdiByAccountant(cl, input)
      m11(input) == getMonthlyTaxReport(cl, Prop(input, "rfc"), Prop(input, "year"),
                                        Prop(input, "month"))
      m12(input) == getContacts(cl, Prop(input, "rfc"))
      m13(input) == getInvoices(cl, Prop(input, "rfc"),
                                SelectSeq(input, LAMBDA p : p[1] # "rfc"))
      m15(input) == createTaxpayer(cl, Prop(input, "accountantId"), Prop(input, "rfc"),
                                   Prop(input, "ciec"))
  IN CASE name = "extract_compliance_opinion" -> with(rfcSchema, m1)
       [] name = "extract_compliance_opinion_by_accountant" -> with(accountantIdSchema, m2)
       [] name = "extract_compliance_opinion_all" -> Fetch(extractComplianceOpinionAll(cl))
       [] name = "get_compliance_opinion" -> with(rfcSchema, m4)
       [] name = "extract_tax_status" -> with(rfcSchema, m5)
       [] name = "extract_tax_status_by_accountant" -> with(accountantIdSchema, m6)
       [] name = "extract_tax_status_all" -> Fetch(extractTaxStatusAll(cl))
       [] name = "get_tax_status" -> with(rfcSchema, m8)
       [] name = "extract_cfdi" -> with(extractCfdiSchema, m9)
       [] name = "extract_cfdi_by_accountant" -> with(extractCfdiAccountantSchema, m10)
       [] name = "get_monthly_tax_report" -> with(taxReportSchema, m11)
       [] name = "get_contacts" -> with(rfcSchema, m12)
       [] name = "get_invoices" -> with(getInvoicesSchema(t), m13)
       [] name = "get_categories" -> Fetch(getCategories(cl))
       [] name = "create_taxpayer" -> with(createTaxpayerSchema, m15)
       [] OTHER -> Throw(Error("Error", <<"Unknown tool: ", name>>))

\* the result serialized twice
TextContent_twice(v) ==
  <<[type |-> "text", text |-> JSONStringifyPretty(JStr(JSONStringify(v)))]>>

TextContent(v) == <<[type |-> "text", text |-> JSONStringifyPretty(v)]>>

\* a catch block whose generic branch forgets the error flag
CallToolResult_noFlag(outcome) ==
  IF outcome.kind = "return" THEN [content |-> TextContent(outcome.v)]
  ELSE IF outcome.error.class = "TaxoMxApiError"
  THEN [content |-> TextContent(JObj(<< <<<<"error">>, JBool(TRUE)>>,
                                        <<<<"statusCode">>, JNum(outcome.error.statusCode)>>,
                                        <<<<"message">>, JStr(outcome.error.message)>>,
                                        <<<<"details">>, outcome.error.details>> >>)),
        isError |-> TRUE]
  ELSE [content |-> TextContent(JObj(<< <<<<"error">>, JBool(TRUE)>>,
                                        <<<<"message">>, JStr(outcome.error.message)>> >>))]

\* the return after the switch and the catch block
CallToolResult(outcome) ==
  IF outcome.kind = "return" THEN [content |-> TextContent(outcome.v)]
  ELSE IF outcome.error.class = "TaxoMxApiError"
  THEN [content |-> TextContent(JObj(<< <<<<"error">>, JBool(TRUE)>>,
                                        <<<<"statusCode">>, JNum(outcome.error.statusCode)>>,
                                        <<<<"message">>, JStr(outcome.error.message)>>,
                                        <<<<"details">>, outcome.error.details>> >>)),
        isError |-> TRUE]
  ELSE IF outcome.error.class = "Error"
  THEN [content |-> TextContent(JObj(<< <<<<"error">>, JBool(TRUE)>>,
                                        <<<<"message">>, JStr(outcome.error.message)>> >>)),
        isError |-> TRUE]
  ELSE [content |-> TextContent(JObj(<< <<<<"error">>, JBool(TRUE)>>,
                                        <<<<"message">>, JStr(<<"An unknown error occurred">>)>> >>)),
        isError |-> TRUE]

\* a listing that loses the last descriptor
ListToolsResult_truncated(t) == [tools |-> SubSeq(TOOLS(t), 1, Len(TOOLS(t)) - 1)]

\* the ListToolsRequestSchema handler
ListToolsResult(t) == [tools |-> TOOLS(t)]

---------------------------------------------------------------------------
(* Inputs: tool calls, tokens and upstream answers *)

Transports == {"http", "stdio"}

Tokens == {<<"abc123">>, <<"xyz">>}

ToolNames == {HttpTOOLS[i].name : i \in 1 .. Len(HttpTOOLS)}

\* a name that no catalog lists
UnknownToolName == "delete_taxpayer"

\* the argument keys of a minimal valid call
RequiredKeys(name) ==
  CASE name \in {"extract_compliance_opinion", "get_compliance_opinion",
                 "extract_tax_status", "get_tax_status", "get_contacts",
                 "get_invoices"} -> {"rfc"}
    [] name \in {"extract_compliance_opinion_by_accountant",
                 "extract_tax_status_by_accountant"} -> {"accountantId"}
    [] name = "extract_cfdi" -> {"rfc", "startDate", "endDate", "extractionType"}
    [] name = "extract_cfdi_by_accountant" -> {"accountantId", "startDate", "endDate"}
    [] name = "get_monthly_tax_report" -> {"rfc", "year", "month"}
    [] name = "create_taxpayer" -> {"accountantId", "rfc", "ciec"}
    [] OTHER -> {}

\* the optional filters of get_invoices that the documentation lists
DocumentedFilters ==
  {"type", "year", "month", "status", "category", "search", "issuer",
   "paymentType", "paymentWay"}

\* the keys a caller may add to a minimal call: the optional filters and a
\* key that no schema declares
ExtraKeys(name) ==
  IF name = "get_invoices" THEN DocumentedFilters \cup {"dates"} ELSE {"limit"}

\* a well-formed value for each key
PlainValue(k) ==
  CASE k = "rfc" -> JStr(<<"ZAHM8212203I2">>)
    [] k = "accountantId" -> JStr(<<"2896">>)
    [] k = "ciec" -> JStr(<<"secret">>)
    [] k = "startDate" -> JStr(<<"2025-01-01">>)
    [] k = "endDate" -> JStr(<<"2025-01-31">>)
    [] k = "extractionType" -> JStr(<<"all">>)
    [] k = "year" -> JStr(<<"2025">>)
    [] k = "month" -> JStr(<<"04">>)
    [] OTHER -> JStr(<<"x">>)

Absent == [t |-> "absent"]

EmptyString == JStr(<<>>)

\* a string with characters that URLs and JSON strings treat specially
SpecialString == JStr(<<"a", "/", "?", "&", " ", "\"">>)

NotAString == JNum(7)

\* the ways one key of a call may differ from the minimal valid call
Variations(name, k) ==
  IF k = "extractionType"
  THEN {Absent, JStr(<<"issued">>), JStr(<<"received">>), JStr(<<"other">>), NotAString}
  ELSE IF k \in RequiredKeys(name)
  THEN {Absent, EmptyString, SpecialString, NotAString}
  ELSE {SpecialString, EmptyString, NotAString}

AllVariations ==
  UNION {Variations(n, k) : n \in {"extract_cfdi"}, k \in {"rfc", "extractionType", "limit"}}

\* the argument object that differs from the minimal one as var says
ArgsObject(name, var) ==
  LET keys == {k \in RequiredKeys(name) \cup DOMAIN var :
                 k \in DOMAIN var => var[k] # Absent}
  IN [t |-> "obj",
      f |-> [k \in keys |-> IF k \in DOMAIN var THEN var[k] ELSE PlainValue(k)]]

ArgsOf(name) ==
  {JUndefined} \cup
  UNION {{ArgsObject(name, var) :
            var \in {v \in [D -> AllVariations] : \A k \in D : v[k] \in Variations(name, k)}} :
         D \in {S \in SUBSET (RequiredKeys(name) \cup ExtraKeys(name)) :
                  Cardinality(S) <= MaxVariations}}

\* the tool calls of the model
Calls ==
  UNION {{[name |-> n, args |-> a] : a \in ArgsOf(n)} : n \in ToolNames}
  \cup {[name |-> UnknownToolName, args |-> ArgsObject("get_contacts", <<>>)]}

\* the JSON values the upstream answers with
JsonBodies ==
  {JObj(<< <<<<"detail">>, JStr(<<"not found">>)>> >>),
   JArr(<<JNum(1),
          JObj(<< <<<<"k">>, JStr(<<"a", "\"", "\\", "\n">>)>>, <<<<"n">>, JNull>>,
                  <<<<"e">>, JObj(<<>>)>> >>),
          JBool(TRUE)>>),
   JObj(<< <<<<"error">>, JBool(TRUE)>>, <<<<"message">>, JStr(<<"queued">>)>> >>),
   JNull}

\* bodies that are not JSON
TextBodies == {<<"N", "o", "t", " ", "F", "o", "u", "n", "d">>, <<"{", "\"", "d", "e", "t">>}

Bodies == {JSONStringify(v) : v \in JsonBodies} \cup TextBodies

StatusText(status) == IF status = 200 THEN <<"OK">> ELSE <<"Not Found">>

Statuses == {200, 404}

Response(status, body) ==
  [kind |-> "response", status |-> status, statusText |-> StatusText(status),
   body |-> body, bodyUsed |-> FALSE]

\* the responses fetch can resolve with
Responses == {Response(status, body) : status \in Statuses, body \in Bodies}

NoCall == [name |-> "", args |-> JUndefined]
NoAnswer == [kind |-> "none"]
NoReply == [kind |-> "none"]

---------------------------------------------------------------------------
(* The entry points: token resolution of the standard-I/O process and the  *)
(* Express application of the HTTP server                                  *)

\* largest number of HTTP requests the server has received
MaxRequests == 2

\* JavaScript truthiness of a string-or-undefined value
Truthy(v) == v.t = "str" /\ v.s # <<>>

\* String.prototype.startsWith and slice, Array.prototype.slice and indexOf
StartsWith(s, prefix) == Len(s) >= Len(prefix) /\ SubSeq(s, 1, Len(prefix)) = prefix

Slice(s, n) == SubSeq(s, n + 1, Len(s))

IndexOf(a, x) ==
  IF \E i \in 1 .. Len(a) : a[i] = x
  THEN (CHOOSE i \in 1 .. Len(a) : a[i] = x /\ \A j \in 1 .. i - 1 : a[j] # x) - 1
  ELSE -1

\* a[i] of a JavaScript array of strings, undefined out of range
At(a, i) == IF i + 1 \in 1 .. Len(a) THEN JStr(a[i + 1]) ELSE JUndefined

Exit(code) == [kind |-> "exit", code |-> code]

\* a getToken that prefers the environment variable
getToken_envFirst(process) ==
  LET args == Slice(process.argv, 2)
      tokenIndex == IndexOf(args, <<"--token">>)
  IN IF Truthy(process.env.TAXO_MX_TOKEN) THEN Return(process.env.TAXO_MX_TOKEN.s)
     ELSE IF tokenIndex # -1 /\ Truthy(At(args, tokenIndex + 1))
     THEN Return(At(args, tokenIndex + 1).s)
     ELSE Exit(1)

\* getToken of the standard-I/O entry point
getToken(process) ==
  LET args == Slice(process.argv, 2)
      tokenIndex == IndexOf(args, <<"--token">>)
  IN IF tokenIndex # -1 /\ Truthy(At(args, tokenIndex + 1))
     THEN Return(At(args, tokenIndex + 1).s)
     ELSE IF Truthy(process.env.TAXO_MX_TOKEN) THEN Return(process.env.TAXO_MX_TOKEN.s)
     ELSE Exit(1)

\* command lines and environments of the standard-I/O process
CliToken == <<"c", "l", "i">>
EnvToken == <<"e", "n", "v">>

Argvs ==
  {<<<<"node">>, <<"index.js">>>> \o args :
     args \in {<<>>,
               <<<<"--token">>, CliToken>>,
               <<<<"--token">>>>,
               <<<<"--token">>, <<>>>>,
               <<<<"--verbose">>, <<"--token">>, CliToken>>}}

Envs == {[TAXO_MX_TOKEN |-> v] : v \in {JUndefined, JStr(<<>>), JStr(EnvToken)}}

NoClient == [kind |-> "none"]

\* a process that has not run main yet, and one whose server is connected
Process(argv, env) == [stage |-> "start", argv |-> argv, env |-> env, exitCode |-> -1]

Started ==
  [stage |-> "serving", argv |-> <<<<"node">>, <<"index.js">>>>,
   env |-> [TAXO_MX_TOKEN |-> JUndefined], exitCode |-> -1]

\* the tool calls sent to the standard-I/O process
StdioCalls ==
  {c \in Calls :
     c.args = ArgsObject(IF c.name = UnknownToolName THEN "get_contacts" ELSE c.name, <<>>)}

\* incoming HTTP requests: method, path segments, Authorization header
Methods == {"GET", "POST", "OPTIONS", "DELETE"}

PathToken == <<"a", "b", "c", "1", "2", "3">>

Paths == {<<<<"health">>>>, <<<<"mcp">>>>, <<<<"mcp">>, PathToken>>}

HeaderToken == <<"x", "y", "z">>

Bearer == <<"B", "e", "a", "r", "e", "r", " ">>

AuthHeaders ==
  {JUndefined, JStr(Bearer \o HeaderToken), JStr(Bearer),
   JStr(<<"B", "a", "s", "i", "c", " ">> \o HeaderToken)}

HttpRequests ==
  [method : Methods, path : Paths, headers : {[authorization |-> a] : a \in AuthHeaders}]

\* the headers the CORS middleware sets on every response
CorsHeaders ==
  [AccessControlAllowOrigin |-> <<"*">>,
   AccessControlAllowMethods |-> <<"GET, POST, OPTIONS">>,
   AccessControlAllowHeaders |-> <<"Content-Type, Authorization, Accept">>]

\* a response that lost the headers of the middleware
Res_bare(status, body) ==
  [status |-> status,
   headers |-> [AccessControlAllowOrigin |-> <<>>, AccessControlAllowMethods |-> <<>>,
                AccessControlAllowHeaders |-> <<>>],
   body |-> body]

Res(status, body) == [status |-> status, headers |-> CorsHeaders, body |-> body]

Respond(res) == [kind |-> "respond", res |-> res]

Serve(token) == [kind |-> "serve", token |-> token]

\* a health body without the version
HealthBody_noVersion ==
  JObj(<< <<<<"status">>, JStr(<<"ok">>)>>,
          <<<<"server">>, JStr(<<"taxo-mx-mcp">>)>> >>)

\* the object of the /health handler
HealthBody ==
  JObj(<< <<<<"status">>, JStr(<<"ok">>)>>,
          <<<<"server">>, JStr(<<"taxo-mx-mcp">>)>>,
          <<<<"version">>, JStr(<<"1.0.0">>)>> >>)

\* a resolution in which the Authorization header overrides the path token
ResolveToken_headerWins(req, pathToken) ==
  LET authHeader == req.headers.authorization
  IN IF authHeader.t = "str" /\ StartsWith(authHeader.s, Bearer)
     THEN JStr(Slice(authHeader.s, 7))
     ELSE pathToken

\* let token = pathToken; if (!token) { ... authHeader.slice(7) }
ResolveToken(req, pathToken) ==
  IF Truthy(pathToken) THEN pathToken
  ELSE LET authHeader == req.headers.authorization
       IN IF authHeader.t = "str" /\ StartsWith(authHeader.s, Bearer)
          THEN JStr(Slice(authHeader.s, 7))
          ELSE pathToken

\* a 401 response without the hint
Unauthorized_noHint ==
  Respond(Res(401, JObj(<< <<<<"error">>, JStr(<<"Authentication required">>)>> >>)))

\* the response to a request without a token
Unauthorized ==
  Respond(Res(401, JObj(<< <<<<"error">>, JStr(<<"Authentication required">>)>>,
                          <<<<"hint">>,
                            JStr(<<"Provide token in URL path (/mcp/YOUR_TOKEN) or Authorization: Bearer header">>)>> >>)))

\* a handler without the method check
handleMcpRequest_anyMethod(req, pathToken) ==
  LET token == ResolveToken(req, pathToken)
  IN IF ~Truthy(token)
     THEN Unauthorized
     ELSE Serve(token.s)

\* handleMcpRequest up to the construction of the client
handleMcpRequest(req, pathToken) ==
  IF req.method # "POST"
  THEN Respond(Res(405, JObj(<< <<<<"error">>,
                                  JStr(<<"Method not allowed. Use POST for MCP requests.">>)>> >>)))
  ELSE LET token == ResolveToken(req, pathToken)
       IN IF ~Truthy(token)
          THEN Unauthorized
          ELSE Serve(token.s)

\* the middleware and the routes of the application, in registration order
App(req) ==
  IF req.method = "OPTIONS" THEN Respond(Res(200, JStr(<<"OK">>)))
  ELSE IF req.method = "GET" /\ req.path = <<<<"health">>>> THEN Respond(Res(200, HealthBody))
  ELSE IF Len(req.path) = 2 /\ req.path[1] = <<"mcp">>
  THEN handleMcpRequest(req, JStr(req.path[2]))
  ELSE IF req.path = <<<<"mcp">>>> THEN handleMcpRequest(req, JUndefined)
  ELSE Respond(Res(404, JStr(<<"Cannot ", req.method, " /">> \o req.path[1])))

\* the JSON-RPC messages of the request bodies
HttpCalls ==
  {[name |-> "get_contacts", args |-> ArgsObject("get_contacts", <<>>)],
   [name |-> UnknownToolName, args |-> ArgsObject("get_contacts", <<>>)]}

HttpMessages ==
  {[method |-> "tools/list", params |-> NoCall]}
  \cup {[method |-> "tools/call", params |-> c] : c \in HttpCalls}

NoMessage == [method |-> "", params |-> NoCall]

\* how the fetch of an HTTP request's handler settles
HttpAnswers ==
  {[kind |-> "failure"]}
  \cup {Response(status, JSONStringify(JObj(<< <<<<"detail">>, JStr(<<"x">>)>> >>))) :
          status \in Statuses}

NoRes == [status |-> 0, headers |-> CorsHeaders, body |-> JUndefined]

\* the locals of one invocation of the application
FreeSlot ==
  [stage |-> "free", req |-> [method |-> "", path |-> <<>>,
                              headers |-> [authorization |-> JUndefined]],
   client |-> NoClient, server |-> FALSE, message |-> NoMessage,
   outbound |-> <<>>, res |-> NoRes, closed |-> FALSE]

NoRequests == [i \in 1 .. MaxRequests |-> FreeSlot]

\* largest number of tool calls read from standard input
MaxPipelined == 2

\* the tool calls written to standard input one after another, and how the
\* fetch of each settles
PipelinedCalls ==
  {c \in StdioCalls :
     c.name \in {"get_contacts", "get_categories", "create_taxpayer", UnknownToolName}}

PipelinedAnswers ==
  {[kind |-> "failure"]} \cup {r \in Responses : r.body = JSONStringify(JNull)}

\* the locals of one invocation of the CallToolRequestSchema handler
NotRead == [stage |-> "none", call |-> NoCall, outbound |-> <<>>, reply |-> NoReply]

NoPipeline == [calls |-> [i \in 1 .. MaxPipelined |-> NotRead], stdout |-> <<>>]

---------------------------------------------------------------------------
(* The state machine *)

Init ==
  /\ transport \in Transports
  /\ client \in {TaxoMxApiClient([token |-> tok]) : tok \in Tokens}
  /\ pc = "idle"
  /\ call = NoCall
  /\ outbound = <<>>
  /\ upstream = NoAnswer
  /\ reply = NoReply
  /\ delivered = <<>>
  /\ http = NoRequests
  /\ proc = Started
  /\ pipeline = NoPipeline

\* a tools/list request is served
ListTools ==
  /\ pc = "idle"
  /\ reply' = ListToolsResult(transport)
  /\ UNCHANGED <<transport, client, pc, call, outbound, upstream, delivered, http, proc, pipeline>>

\* a tools/call request arrives: the handler runs up to its await, or to its
\* return when the switch throws
CallTool(c) ==
  /\ pc = "idle"
  /\ Len(delivered) < MaxCalls
  /\ call' = c
  /\ upstream' = NoAnswer
  /\ LET d == Dispatch(transport, client, c.name, c.args)
     IN IF d.kind = "fetch"
        THEN /\ outbound' = <<d.req>>
             /\ reply' = NoReply
             /\ pc' = "fetching"
        ELSE /\ outbound' = <<>>
             /\ reply' = CallToolResult(d)
             /\ pc' = "replied"
  /\ UNCHANGED <<transport, client, delivered, http, proc, pipeline>>

\* a client that issues the request again after a network failure
FetchFails_retry ==
  /\ pc = "fetching"
  /\ upstream' = [kind |-> "failure"]
  /\ IF Len(outbound) < 2
     THEN /\ outbound' = Append(outbound, outbound[1])
          /\ UNCHANGED <<reply, pc>>
     ELSE /\ reply' = CallToolResult(Throw(Error("TypeError", <<"fetch failed">>)))
          /\ pc' = "replied"
          /\ UNCHANGED outbound
  /\ UNCHANGED <<transport, client, call, delivered, http, proc, pipeline>>

\* fetch rejects: no response was received
FetchFails ==
  /\ pc = "fetching"
  /\ upstream' = [kind |-> "failure"]
  /\ reply' = CallToolResult(Throw(Error("TypeError", <<"fetch failed">>)))
  /\ pc' = "replied"
  /\ UNCHANGED <<transport, client, call, outbound, delivered, http, proc, pipeline>>

\* fetch resolves with a response: request() settles and the handler returns
FetchResponds(response) ==
  /\ pc = "fetching"
  /\ upstream' = response
  /\ reply' = CallToolResult(RequestSettle(response))
  /\ pc' = "replied"
  /\ UNCHANGED <<transport, client, call, outbound, delivered, http, proc, pipeline>>

\* the envelope is sent and the handler's locals go out of scope
Deliver ==
  /\ pc = "replied"
  /\ delivered' = Append(delivered, "isError" \in DOMAIN reply)
  /\ pc' = "idle"
  /\ call' = NoCall
  /\ outbound' = <<>>
  /\ upstream' = NoAnswer
  /\ reply' = NoReply
  /\ UNCHANGED <<transport, client, http, proc, pipeline>>

Next ==
  \/ ListTools
  \/ Deliver
  \/ \E c \in Calls : CallTool(c)
  \/ FetchFails
  \/ \E response \in Responses : FetchResponds(response)

Spec == Init /\ [][Next]_vars

---------------------------------------------------------------------------
(* The standard-I/O process from its start, with one tool call in the     *)
(* window at a time; SpecPipeline below has several calls in flight        *)

InitStdio ==
  /\ transport = "stdio"
  /\ client = NoClient
  /\ pc = "idle"
  /\ call = NoCall
  /\ outbound = <<>>
  /\ upstream = NoAnswer
  /\ reply = NoReply
  /\ delivered = <<>>
  /\ http = NoRequests
  /\ proc \in {Process(argv, env) : argv \in Argvs, env \in Envs}
  /\ pipeline = NoPipeline

\* main of the standard-I/O entry point: getToken, the client, the handlers,
\* server.connect
StdioMain ==
  /\ proc.stage = "start"
  /\ LET token == getToken(proc)
     IN IF token.kind = "exit"
        THEN /\ proc' = [proc EXCEPT !.stage = "exited", !.exitCode = token.code]
             /\ UNCHANGED client
        ELSE /\ client' = TaxoMxApiClient([token |-> token.v])
             /\ proc' = [proc EXCEPT !.stage = "serving"]
  /\ UNCHANGED <<transport, pc, call, outbound, upstream, reply, delivered, http, pipeline>>

\* the connected server serves the requests read from standard input
StdioListTools == proc.stage = "serving" /\ ListTools

StdioCallTool(c) == proc.stage = "serving" /\ CallTool(c)

StdioFetchFails == proc.stage = "serving" /\ FetchFails

StdioFetchResponds(response) == proc.stage = "serving" /\ FetchResponds(response)

StdioDeliver == proc.stage = "serving" /\ Deliver

NextStdio ==
  \/ StdioMain
  \/ StdioListTools
  \/ StdioDeliver
  \/ \E c \in StdioCalls : StdioCallTool(c)
  \/ StdioFetchFails
  \/ \E response \in Responses : StdioFetchResponds(response)

SpecStdio == InitStdio /\ [][NextStdio]_vars

---------------------------------------------------------------------------
(* The standard-I/O server with several tool calls written to its input:   *)
(* the transport hands every message it reads to the handler at once, and  *)
(* a handler gives way to the next at its await of fetch                   *)

InitPipeline ==
  /\ transport = "stdio"
  /\ client \in {TaxoMxApiClient([token |-> tok]) : tok \in Tokens}
  /\ pc = "idle"
  /\ call = NoCall
  /\ outbound = <<>>
  /\ upstream = NoAnswer
  /\ reply = NoReply
  /\ delivered = <<>>
  /\ http = NoRequests
  /\ proc = Started
  /\ pipeline = NoPipeline

\* the i-th tools/call message is read: its handler runs up to its await of
\* fetch, or to its return, and then its envelope is written
PipelineCallTool(i, c) ==
  /\ pipeline.calls[i].stage = "none"
  /\ IF i = 1 THEN TRUE ELSE pipeline.calls[i - 1].stage # "none"
  /\ LET d == Dispatch(transport, client, c.name, c.args)
     IN IF d.kind = "fetch"
        THEN pipeline' = [pipeline EXCEPT !.calls[i] =
                            [stage |-> "fetching", call |-> c, outbound |-> <<d.req>>,
                             reply |-> NoReply]]
        ELSE pipeline' = [pipeline EXCEPT !.calls[i] =
                            [stage |-> "answered", call |-> c, outbound |-> <<>>,
                             reply |-> CallToolResult(d)],
                                          !.stdout = Append(@, i)]
  /\ UNCHANGED <<transport, client, pc, call, outbound, upstream, reply, delivered, http, proc>>

\* the fetch of the i-th call settles: its handler returns and its envelope
\* is written
PipelineFetchSettles(i, answer) ==
  /\ pipeline.calls[i].stage = "fetching"
  /\ LET settled == IF answer.kind = "failure"
                    THEN Throw(Error("TypeError", <<"fetch failed">>))
                    ELSE RequestSettle(answer)
     IN pipeline' = [pipeline EXCEPT !.calls[i].stage = "answered",
                                     !.calls[i].reply = CallToolResult(settled),
                                     !.stdout = Append(@, i)]
  /\ UNCHANGED <<transport, client, pc, call, outbound, upstream, reply, delivered, http, proc>>

NextPipeline ==
  \/ \E i \in 1 .. MaxPipelined, c \in PipelinedCalls : PipelineCallTool(i, c)
  \/ \E i \in 1 .. MaxPipelined, answer \in PipelinedAnswers : PipelineFetchSettles(i, answer)

SpecPipeline == InitPipeline /\ [][NextPipeline]_vars

---------------------------------------------------------------------------
(* The HTTP server: every request runs the application with its own locals *)

InitHttp ==
  /\ transport = "http"
  /\ client = NoClient
  /\ pc = "idle"
  /\ call = NoCall
  /\ outbound = <<>>
  /\ upstream = NoAnswer
  /\ reply = NoReply
  /\ delivered = <<>>
  /\ http = NoRequests
  /\ proc = Started
  /\ pipeline = NoPipeline

\* a handler that uses a client kept in one module-level variable, which
\* every request overwrites
BoundClient_shared(h, i) ==
  LET bound == {j \in DOMAIN h : h[j].client # NoClient}
  IN h[CHOOSE j \in bound : \A k \in bound : k <= j].client

\* the client the handlers of request i close over: createServer(client)
BoundClient(h, i) == h[i].client

\* a request arrives: the middleware and the route run up to the first await
\* of handleMcpRequest, or to the response
Receive(i, req) ==
  /\ http[i].stage = "free"
  /\ IF i = 1 THEN TRUE ELSE http[i - 1].stage # "free"
  /\ LET r == App(req)
     IN IF r.kind = "respond"
        THEN http' = [http EXCEPT ![i] = [FreeSlot EXCEPT !.stage = "done", !.req = req,
                                                         !.res = r.res]]
        ELSE http' = [http EXCEPT ![i] =
                        [FreeSlot EXCEPT !.stage = "connected", !.req = req,
                                         !.client = TaxoMxApiClient([token |-> r.token]),
                                         !.server = TRUE]]
  /\ UNCHANGED <<transport, client, pc, call, outbound, upstream, reply, delivered, proc,
               pipeline>>

\* the result of a JSON-RPC request, written as the HTTP response
McpResponse(result) == Res(200, [jsonrpc |-> "2.0", result |-> result])

\* transport.handleRequest: the message of the body reaches its handler,
\* which runs up to its await of fetch, or to its return, the response and
\* transport.close
HandleRequest(i, message) ==
  /\ http[i].stage = "connected"
  /\ IF message.method = "tools/list"
     THEN http' = [http EXCEPT ![i].stage = "done", ![i].message = message,
                               ![i].res = McpResponse(ListToolsResult("http")),
                               ![i].closed = TRUE]
     ELSE LET d == Dispatch("http", BoundClient(http, i), message.params.name,
                            message.params.args)
          IN IF d.kind = "fetch"
             THEN http' = [http EXCEPT ![i].stage = "fetching", ![i].message = message,
                                       ![i].outbound = Append(@, d.req)]
             ELSE http' = [http EXCEPT ![i].stage = "done", ![i].message = message,
                                       ![i].res = McpResponse(CallToolResult(d)),
                                       ![i].closed = TRUE]
  /\ UNCHANGED <<transport, client, pc, call, outbound, upstream, reply, delivered, proc,
               pipeline>>

\* fetch settles: the handler returns its envelope, the response is written
\* and the transport is closed
FetchSettles(i, answer) ==
  /\ http[i].stage = "fetching"
  /\ LET settled == IF answer.kind = "failure"
                    THEN Throw(Error("TypeError", <<"fetch failed">>))
                    ELSE RequestSettle(answer)
     IN http' = [http EXCEPT ![i].stage = "done",
                             ![i].res = McpResponse(CallToolResult(settled)),
                             ![i].closed = TRUE]
  /\ UNCHANGED <<transport, client, pc, call, outbound, upstream, reply, delivered, proc,
               pipeline>>

\* transport.handleRequest rejects: the await throws out of handleMcpRequest,
\* which has no try or finally, so transport.close is not reached
HandleRequestRejects(i) ==
  /\ http[i].stage = "connected"
  /\ http' = [http EXCEPT ![i].stage = "failed"]
  /\ UNCHANGED <<transport, client, pc, call, outbound, upstream, reply, delivered, proc,
               pipeline>>

NextHttp ==
  \/ \E i \in 1 .. MaxRequests, req \in HttpRequests : Receive(i, req)
  \/ \E i \in 1 .. MaxRequests, message \in HttpMessages : HandleRequest(i, message)
  \/ \E i \in 1 .. MaxRequests, answer \in HttpAnswers : FetchSettles(i, answer)
  \/ \E i \in 1 .. MaxRequests : HandleRequestRejects(i)

SpecHttp == InitHttp /\ [][NextHttp]_vars

---------------------------------------------------------------------------
(* Vocabulary of the properties *)

PrimaryHost == "https://app.taxo.co"
SecondaryHost == "https://demo.taxo.co"

MinimalArgs(name) == ArgsObject(name, <<>>)

Range(seq) == {seq[i] : i \in 1 .. Len(seq)}

IsEnvelope(r) == "content" \in DOMAIN r
IsListing(r) == "tools" \in DOMAIN r

\* the text payload of an envelope, parsed
Payload(r) == JSONParse(r.content[1].text)

\* the properties of a parsed JSON object, as a set
Members(v) == IF v.t = "obj" THEN Range(v.o) ELSE {}

IsErrorEnvelope(r) ==
  /\ IsEnvelope(r)
  /\ "isError" \in DOMAIN r
  /\ r.isError = TRUE
  /\ Len(r.content) = 1
  /\ r.content[1].type = "text"
  /\ Payload(r).ok
  /\ <<<<"error">>, JBool(TRUE)>> \in Members(Payload(r).v)

\* the call in the window is a catalog tool with an argument object
ServingTool == pc # "idle" /\ call.name \in ToolNames

Arg(k) == call.args.f[k].s

\* host, method and path of the operation table for the call in the window
TableRequest(name) ==
  CASE name = "extract_compliance_opinion" ->
         <<PrimaryHost, "POST", <<"/api/extractions/oc/client">> >>
    [] name = "extract_compliance_opinion_by_accountant" ->
         <<PrimaryHost, "POST", <<"/api/extractions/oc/accountant">> >>
    [] name = "extract_compliance_opinion_all" ->
         <<PrimaryHost, "POST", <<"/api/extractions/oc/extract-all">> >>
    [] name = "get_compliance_opinion" ->
         <<PrimaryHost, "GET", <<"/api/extractions/oc/client/">> \o Arg("rfc")>>
    [] name = "extract_tax_status" ->
         <<PrimaryHost, "POST", <<"/api/extractions/csf/client">> >>
    [] name = "extract_tax_status_by_accountant" ->
         <<PrimaryHost, "POST", <<"/api/extractions/csf/accountant">> >>
    [] name = "extract_tax_status_all" ->
         <<PrimaryHost, "POST", <<"/api/extractions/csf/extract-all">> >>
    [] name = "get_tax_status" ->
         <<PrimaryHost, "GET", <<"/api/extractions/csf/client/">> \o Arg("rfc")>>
    [] name = "extract_cfdi" ->
         <<PrimaryHost, "POST", <<"/api/extractions/cfdi/client">> >>
    [] name = "extract_cfdi_by_accountant" ->
         <<PrimaryHost, "POST", <<"/api/extractions/cfdi/accountant">> >>
    [] name = "get_monthly_tax_report" ->
         <<SecondaryHost, "GET",
           <<"/api/v1/tax-reports/monthly/">> \o Arg("rfc") \o <<"/">> \o Arg("year")
             \o <<"/">> \o Arg("month")>>
    [] name = "get_contacts" ->
         <<SecondaryHost, "GET", <<"/api/v1/contacts/">> \o Arg("rfc")>>
    [] name = "get_invoices" ->
         <<SecondaryHost, "GET", <<"/api/v1/invoices/">> \o Arg("rfc")>>
    [] name = "get_categories" ->
         <<SecondaryHost, "GET", <<"/api/categorization/categories">> >>
    [] name = "create_taxpayer" ->
         <<PrimaryHost, "POST",
           <<"/api/v1/accountant/">> \o Arg("accountantId") \o <<"/clients">> >>

\* the body keys of the operation table, each with the argument it carries
TableBody(name) ==
  CASE name \in {"extract_compliance_opinion", "extract_tax_status"} ->
         {<<<<"rfc">>, call.args.f["rfc"]>>}
    [] name \in {"extract_compliance_opinion_by_accountant",
                 "extract_tax_status_by_accountant"} ->
         {<<<<"accountant_id">>, call.args.f["accountantId"]>>}
    [] name = "extract_cfdi" ->
         {<<<<"rfc">>, call.args.f["rfc"]>>,
          <<<<"start_date">>, call.args.f["startDate"]>>,
          <<<<"end_date">>, call.args.f["endDate"]>>,
          <<<<"extraction_type">>, call.args.f["extractionType"]>>}
    [] name = "extract_cfdi_by_accountant" ->
         {<<<<"accountant_id">>, call.args.f["accountantId"]>>,
          <<<<"start_date">>, call.args.f["startDate"]>>,
          <<<<"end_date">>, call.args.f["endDate"]>>}
    [] name = "create_taxpayer" ->
         {<<<<"rfc">>, call.args.f["rfc"]>>, <<<<"ciec">>, call.args.f["ciec"]>>}
    [] OTHER -> {}

---------------------------------------------------------------------------
(* Properties *)

\* C1: a tool call with a minimal valid argument set makes exactly one
\* outbound request, to the host, method and path of the operation table.
C1_MinimalCallFollowsTable ==
  (ServingTool /\ call.args = MinimalArgs(call.name)) =>
    /\ Len(outbound) = 1
    /\ <<outbound[1].url[1], outbound[1].method, Tail(outbound[1].url)>>
         = TableRequest(call.name)

C1_Witness ==
  /\ pc = "replied"
  /\ call.name = "get_monthly_tax_report"
  /\ call.args = MinimalArgs(call.name)
  /\ Len(outbound) = 1
  /\ outbound[1].url[1] = SecondaryHost

\* C2: the body of every outbound POST carries exactly the snake-case keys of
\* the operation table with the values the caller supplied; create_taxpayer
\* sends accountantId in the path only and {rfc, ciec} as its body.
C2_PostBodyKeys ==
  \A i \in 1 .. Len(outbound) :
    outbound[i].method = "POST" =>
      IF TableBody(call.name) = {}
      THEN outbound[i].body = JUndefined
      ELSE /\ outbound[i].body.t = "str"
           /\ JSONParse(outbound[i].body.s).ok
           /\ JSONParse(outbound[i].body.s).v.t = "obj"
           /\ Members(JSONParse(outbound[i].body.s).v) = TableBody(call.name)
           /\ Len(JSONParse(outbound[i].body.s).v.o) = Cardinality(TableBody(call.name))

C2_Witness ==
  /\ pc = "fetching"
  /\ call.name = "create_taxpayer"
  /\ call.args.f["ciec"] = SpecialString
  /\ outbound[1].method = "POST"
  /\ outbound[1].url = <<PrimaryHost, "/api/v1/accountant/", "2896", "/clients">>
  /\ Members(JSONParse(outbound[1].body.s).v)
       = {<<<<"rfc">>, JStr(<<"ZAHM8212203I2">>)>>, <<<<"ciec">>, SpecialString>>}

\* the names of the operation table, in catalog order
TableNames ==
  <<"extract_compliance_opinion", "extract_compliance_opinion_by_accountant",
    "extract_compliance_opinion_all", "get_compliance_opinion",
    "extract_tax_status", "extract_tax_status_by_accountant",
    "extract_tax_status_all", "get_tax_status",
    "extract_cfdi", "extract_cfdi_by_accountant",
    "get_monthly_tax_report", "get_contacts", "get_invoices", "get_categories",
    "create_taxpayer">>

\* C3 as stated: every catalog listing is the same sequence of seventeen
\* tool descriptors.
C3_SeventeenEntries ==
  IsListing(reply) => /\ reply.tools = TOOLS(transport)
                      /\ Len(reply.tools) = 17

\* C3 amended: every catalog listing is the same sequence of fifteen tool
\* descriptors, in the order of the operation table, whatever tool calls were
\* served before it.
C3_FifteenEntries ==
  IsListing(reply) => /\ reply.tools = TOOLS(transport)
                      /\ Len(reply.tools) = 15
                      /\ [i \in 1 .. Len(reply.tools) |-> reply.tools[i].name] = TableNames

C3_Witness ==
  /\ IsListing(reply)
  /\ delivered = <<TRUE>>
  /\ Len(reply.tools) = 15

\* the descriptor a catalog gives for a tool
Descriptor(tools, name) == tools[CHOOSE i \in 1 .. Len(tools) : tools[i].name = name]

DeclaredKeys(tools, name) ==
  {Descriptor(tools, name).inputSchema.properties[i].name :
     i \in 1 .. Len(Descriptor(tools, name).inputSchema.properties)}

\* C4: both transports declare the same input properties for every tool and
\* accept the same argument keys: a call is dispatched alike by both.
C4_TransportsAgree ==
  ServingTool =>
    /\ Descriptor(HttpTOOLS, call.name).inputSchema
         = Descriptor(StdioTOOLS, call.name).inputSchema
    /\ Dispatch("http", client, call.name, call.args)
         = Dispatch("stdio", client, call.name, call.args)

\* the arguments fail the schema the catalog publishes for the tool
FailsSchema(tools, name, args) ==
  LET schema == Descriptor(tools, name).inputSchema
      required == IF "required" \in DOMAIN schema THEN Range(schema.required) ELSE {}
      props == Range(schema.properties)
  IN IF args.t # "obj" THEN required # {}
     ELSE \/ \E k \in required : k \notin DOMAIN args.f
          \/ \E q \in props :
               /\ q.name \in DOMAIN args.f
               /\ \/ args.f[q.name].t # "str"
                  \/ /\ "enum" \in DOMAIN q
                     /\ args.f[q.name].s \notin {<<e>> : e \in Range(q.enum)}

\* C5: a tool call whose arguments fail the tool's schema returns an error
\* envelope and makes no outbound request.
C5_InvalidArgsNoRequest ==
  (ServingTool /\ FailsSchema(TOOLS(transport), call.name, call.args)) =>
    /\ pc = "replied"
    /\ outbound = <<>>
    /\ IsErrorEnvelope(reply)

C5_Witness ==
  /\ pc = "replied"
  /\ call.name = "extract_cfdi"
  /\ call.args.t = "obj"
  /\ DOMAIN call.args.f = {"rfc", "startDate", "endDate", "extractionType"}
  /\ call.args.f["extractionType"] = JStr(<<"other">>)
  /\ \A k \in {"rfc", "startDate", "endDate"} : call.args.f[k] = PlainValue(k)
  /\ outbound = <<>>
  /\ IsErrorEnvelope(reply)

\* the argument object without the keys the catalog does not declare
Stripped(tools, name, args) ==
  IF args.t # "obj" THEN args
  ELSE [t |-> "obj",
        f |-> [k \in DOMAIN args.f \cap DeclaredKeys(tools, name) |-> args.f[k]]]

Undeclared(tools, name, args) ==
  IF args.t # "obj" THEN {} ELSE DOMAIN args.f \ DeclaredKeys(tools, name)

\* C6: a key the tool's schema does not declare neither fails the call nor
\* reaches the outbound request: the call proceeds as without the key.
C6_UnknownKeysDropped ==
  ServingTool =>
    LET d == Dispatch(transport, client, call.name,
                      Stripped(TOOLS(transport), call.name, call.args))
        extra == Undeclared(TOOLS(transport), call.name, call.args)
    IN /\ d.kind = "fetch" => outbound = <<d.req>>
       /\ d.kind = "throw" => outbound = <<>> /\ reply = CallToolResult(d)
       /\ \A i \in 1 .. Len(outbound) :
            /\ extra \cap Range(outbound[i].url) = {}
            /\ outbound[i].body.t = "str" => extra \cap Range(outbound[i].body.s) = {}

C6_Witness ==
  /\ pc = "fetching"
  /\ call.name = "get_invoices"
  /\ call.args.t = "obj"
  /\ "dates" \in DOMAIN call.args.f
  /\ call.args.f["dates"] = SpecialString
  /\ "search" \in DOMAIN call.args.f
  /\ Len(outbound) = 1
  /\ "dates" \notin Range(outbound[1].url)
  /\ "search" \in Range(outbound[1].url)

\* the part of a URL after its first "?"
QueryOf(url) ==
  IF \E i \in 1 .. Len(url) : url[i] = "?"
  THEN SubSeq(url, 1 + CHOOSE i \in 1 .. Len(url) :
                         url[i] = "?" /\ \A j \in 1 .. i - 1 : url[j] # "?",
              Len(url))
  ELSE <<>>

RECURSIVE Split(_, _)
Split(s, sep) ==
  IF \E i \in 1 .. Len(s) : s[i] = sep
  THEN LET i == CHOOSE i \in 1 .. Len(s) : s[i] = sep /\ \A j \in 1 .. i - 1 : s[j] # sep
       IN <<SubSeq(s, 1, i - 1)>> \o Split(SubSeq(s, i + 1, Len(s)), sep)
  ELSE <<s>>

UrlDecodeSym(c) ==
  CASE c = "+" -> " "
    [] c = "%2F" -> "/"
    [] c = "%3F" -> "?"
    [] c = "%26" -> "&"
    [] c = "%3D" -> "="
    [] c = "%22" -> "\""
    [] c = "%25" -> "%"
    [] OTHER -> c

UrlDecode(s) == [i \in 1 .. Len(s) |-> UrlDecodeSym(s[i])]

\* the decoded name=value pairs of a query string
QueryPairs(q) ==
  IF q = <<>> THEN {}
  ELSE {<<UrlDecode(Split(part, "=")[1]), UrlDecode(Split(part, "=")[2])>> :
          part \in Range(Split(q, "&"))}

\* C7: get_invoices with rfc and any of the documented optional filters puts
\* exactly the filters with a non-empty value into the query string, each with
\* its value, and no query string when there is none.
C7_InvoiceFilters ==
  (/\ ServingTool
   /\ call.name = "get_invoices"
   /\ call.args.t = "obj"
   /\ "rfc" \in DOMAIN call.args.f
   /\ call.args.f["rfc"] = PlainValue("rfc")
   /\ DOMAIN call.args.f \subseteq {"rfc"} \cup DocumentedFilters
   /\ \A k \in DOMAIN call.args.f : call.args.f[k].t = "str") =>
    /\ Len(outbound) = 1
    /\ QueryPairs(QueryOf(outbound[1].url))
         = {<<<<k>>, call.args.f[k].s>> :
              k \in {x \in DOMAIN call.args.f \ {"rfc"} : call.args.f[x].s # <<>>}}
    /\ QueryPairs(QueryOf(outbound[1].url)) = {} => "?" \notin Range(outbound[1].url)

\* C8: a success status with a JSON body gives an envelope of one text block,
\* the pretty-printed serialization of the upstream value, parsing back to that
\* value, without an error flag.
C8_SuccessRoundTrip ==
  (/\ pc = "replied"
   /\ upstream.kind = "response"
   /\ ResponseOk(upstream)
   /\ JSONParse(upstream.body).ok) =>
    /\ IsEnvelope(reply)
    /\ "isError" \notin DOMAIN reply
    /\ Len(reply.content) = 1
    /\ reply.content[1].type = "text"
    /\ Payload(reply) = JSONParse(upstream.body)
    /\ reply.content[1].text = JSONStringifyPretty(JSONParse(upstream.body).v)

C8_Witness ==
  /\ pc = "replied"
  /\ upstream.kind = "response"
  /\ upstream.status = 200
  /\ JSONParse(upstream.body).ok
  /\ JSONParse(upstream.body).v.t = "arr"
  /\ upstream.body # reply.content[1].text
  /\ Payload(reply) = JSONParse(upstream.body)
  /\ "isError" \notin DOMAIN reply

\* C9: an error status with a JSON body gives an envelope with isError true
\* whose payload is {error: true, statusCode: the status, message: derived
\* from the status text, details: the parsed body}.
C9_UpstreamErrorEnvelope ==
  (/\ pc = "replied"
   /\ upstream.kind = "response"
   /\ ~ResponseOk(upstream)
   /\ JSONParse(upstream.body).ok) =>
    /\ IsErrorEnvelope(reply)
    /\ Payload(reply).v.o
         = << <<<<"error">>, JBool(TRUE)>>,
              <<<<"statusCode">>, JNum(upstream.status)>>,
              <<<<"message">>, JStr(<<"API request failed: ">> \o upstream.statusText)>>,
              <<<<"details">>, JSONParse(upstream.body).v>> >>

C9_Witness ==
  /\ pc = "replied"
  /\ upstream.kind = "response"
  /\ upstream.status = 404
  /\ JSONParse(upstream.body).v = JObj(<< <<<<"detail">>, JStr(<<"not found">>)>> >>)
  /\ IsErrorEnvelope(reply)
  /\ <<<<"statusCode">>, JNum(404)>> \in Members(Payload(reply).v)
  /\ <<<<"details">>, JObj(<< <<<<"detail">>, JStr(<<"not found">>)>> >>)>>
       \in Members(Payload(reply).v)

\* C10: an error status with a body that is not JSON still gives an upstream
\* error: the payload carries the status code and the raw body text as details.
C10_RawTextFallback ==
  (/\ pc = "replied"
   /\ upstream.kind = "response"
   /\ ~ResponseOk(upstream)
   /\ ~JSONParse(upstream.body).ok) =>
    /\ IsErrorEnvelope(reply)
    /\ <<<<"statusCode">>, JNum(upstream.status)>> \in Members(Payload(reply).v)
    /\ <<<<"details">>, JStr(upstream.body)>> \in Members(Payload(reply).v)

\* the names a catalog lists
CatalogNames(tools) == {tools[i].name : i \in 1 .. Len(tools)}

UnknownToolEnvelope(name) == CallToolResult(Throw(Error("Error", <<"Unknown tool: ", name>>)))

\* C11: a call whose name the catalog does not list returns an error
\* envelope without an upstream request, and a call whose name the catalog
\* lists is never answered as an unknown operation: with valid arguments it
\* reaches the upstream client.
C11_UnknownOperation ==
  pc # "idle" =>
    IF call.name \in CatalogNames(TOOLS(transport))
    THEN /\ reply # UnknownToolEnvelope(call.name)
         /\ ~FailsSchema(TOOLS(transport), call.name, call.args) => Len(outbound) = 1
    ELSE /\ pc = "replied"
         /\ outbound = <<>>
         /\ IsErrorEnvelope(reply)
         /\ reply = UnknownToolEnvelope(call.name)

C11_Witness ==
  /\ pc = "replied"
  /\ call.name = UnknownToolName
  /\ call.name \notin CatalogNames(TOOLS(transport))
  /\ outbound = <<>>
  /\ IsErrorEnvelope(reply)

\* an envelope of one text block whose text is JSON
WellFormed(r) ==
  /\ IsEnvelope(r)
  /\ DOMAIN r \subseteq {"content", "isError"}
  /\ Len(r.content) = 1
  /\ r.content[1].type = "text"
  /\ Payload(r).ok

HasErrorFlag(r) == "isError" \in DOMAIN r /\ r.isError = TRUE

IsErrorObject(v) == <<<<"error">>, JBool(TRUE)>> \in Members(v)

\* the upstream answered the call in the window with a success status and JSON
Succeeded ==
  /\ upstream.kind = "response"
  /\ ResponseOk(upstream)
  /\ JSONParse(upstream.body).ok

\* C12 as stated: every tool call ends in a well-formed envelope, and the
\* envelope has isError true exactly when its payload is an object with error
\* true.
C12_FlagIffErrorObject ==
  pc = "replied" =>
    /\ WellFormed(reply)
    /\ HasErrorFlag(reply) <=> IsErrorObject(Payload(reply).v)

\* C12 amended: every tool call ends in a well-formed envelope; isError is
\* true exactly when the call did not succeed, and then the payload is an
\* object with error true; the upstream value of a successful call is passed
\* on without an error flag, whatever it contains.
C12_FlagIffFailure ==
  pc = "replied" =>
    /\ WellFormed(reply)
    /\ HasErrorFlag(reply) <=> ~Succeeded
    /\ HasErrorFlag(reply) => IsErrorObject(Payload(reply).v)
    /\ Succeeded => Payload(reply).v = JSONParse(upstream.body).v

C12_Witness ==
  /\ pc = "replied"
  /\ upstream.kind = "response"
  /\ upstream.status = 200
  /\ ~JSONParse(upstream.body).ok
  /\ WellFormed(reply)
  /\ HasErrorFlag(reply)
  /\ IsErrorObject(Payload(reply).v)

\* C19: one tool call makes at most one upstream request; after an error
\* status or a network failure the one request made stays the only one.
C19_AtMostOneRequest ==
  /\ Len(outbound) <= 1
  /\ upstream # NoAnswer => Len(outbound) = 1
  /\ (pc = "replied" /\ HasErrorFlag(reply)) => Len(outbound) <= 1

C19_Witness ==
  /\ pc = "replied"
  /\ upstream.kind = "failure"
  /\ HasErrorFlag(reply)
  /\ Len(outbound) = 1

\* the field names of the payload of an envelope
PayloadFields(r) == {m[1] : m \in Members(Payload(r).v)}

\* C20: the envelope of a network failure is told apart by its fields from
\* the envelopes of a validation failure, of an unknown operation and of an
\* upstream error status.
C20_TransportErrorDistinct ==
  (pc = "replied" /\ upstream.kind = "failure") =>
    /\ PayloadFields(reply) # PayloadFields(CallToolResult(Throw(ZodError)))
    /\ PayloadFields(reply) # PayloadFields(UnknownToolEnvelope(UnknownToolName))
    /\ PayloadFields(reply)
         # PayloadFields(CallToolResult(Throw(TaxoMxApiError(404, <<"API request failed: ">>,
                                                             JNull))))

---------------------------------------------------------------------------
(* Properties of the entry points *)

\* the requests the server has received
Received == {i \in DOMAIN http : http[i].stage # "free"}

OnMcp(req) == Len(req.path) >= 1 /\ req.path[1] = <<"mcp">>

HasPathToken(req) == OnMcp(req) /\ Len(req.path) = 2 /\ req.path[2] # <<>>

\* the Authorization header is 'Bearer ' followed by the text tok
YieldsBearer(req, tok) == req.headers.authorization = JStr(Bearer \o tok)

HeaderTokens == {HeaderToken, PathToken}

YieldsBearerToken(req) == \E tok \in HeaderTokens : YieldsBearer(req, tok)

\* the upstream requests of request i carry the token tok
BoundTo(i, tok) ==
  /\ http[i].client # NoClient
  /\ http[i].client.token = tok
  /\ \A k \in 1 .. Len(http[i].outbound) :
       http[i].outbound[k].headers.Authorization = <<"Bearer ">> \o tok

\* request i caused nothing but its response
NothingConstructed(i) ==
  /\ http[i].stage = "done"
  /\ http[i].client = NoClient
  /\ ~http[i].server
  /\ http[i].message = NoMessage
  /\ http[i].outbound = <<>>

\* C13: the token of a POST to the MCP endpoint is the path segment when
\* there is one, whatever the Authorization header says, and otherwise the
\* text after 'Bearer ' of the Authorization header; it is the token of the
\* request's upstream client and of its upstream requests.
C13_PathTokenThenBearer ==
  \A i \in Received :
    (http[i].req.method = "POST" /\ OnMcp(http[i].req)) =>
      /\ HasPathToken(http[i].req) => BoundTo(i, http[i].req.path[2])
      /\ \A tok \in HeaderTokens :
           (~HasPathToken(http[i].req) /\ YieldsBearer(http[i].req, tok)) => BoundTo(i, tok)

C13_Witness ==
  \E i \in Received :
    /\ http[i].req.method = "POST"
    /\ HasPathToken(http[i].req)
    /\ YieldsBearer(http[i].req, HeaderToken)
    /\ Len(http[i].outbound) = 1
    /\ BoundTo(i, PathToken)
    /\ ~BoundTo(i, HeaderToken)

\* C14: a POST to /mcp without a path token and without an Authorization
\* header that yields a non-empty Bearer token is answered 401 with a hint,
\* and constructs no client, no handler and no upstream request.
C14_Unauthenticated ==
  \A i \in Received :
    (/\ http[i].req.method = "POST"
     /\ OnMcp(http[i].req)
     /\ ~HasPathToken(http[i].req)
     /\ ~YieldsBearerToken(http[i].req)) =>
      /\ http[i].res.status = 401
      /\ <<"hint">> \in {m[1] : m \in Members(http[i].res.body)}
      /\ NothingConstructed(i)

C14_Witness ==
  \E i \in Received :
    /\ http[i].req.method = "POST"
    /\ http[i].req.path = <<<<"mcp">>>>
    /\ http[i].req.headers.authorization = JStr(Bearer)
    /\ http[i].res.status = 401
    /\ NothingConstructed(i)

\* C15 as stated: every request to the MCP endpoint whose method is not POST
\* is answered 405 and causes no protocol exchange and no upstream request.
C15_NonPostIs405 ==
  \A i \in Received :
    (OnMcp(http[i].req) /\ http[i].req.method # "POST") =>
      /\ http[i].res.status = 405
      /\ NothingConstructed(i)

\* C15 amended: every request to the MCP endpoint whose method is neither
\* POST nor OPTIONS is answered 405, with or without a token; an OPTIONS
\* request is answered 200 by the CORS middleware; neither causes a protocol
\* exchange or an upstream request.
C15_NonPostNonOptionsIs405 ==
  \A i \in Received :
    (OnMcp(http[i].req) /\ http[i].req.method # "POST") =>
      /\ http[i].res.status = IF http[i].req.method = "OPTIONS" THEN 200 ELSE 405
      /\ NothingConstructed(i)

C15_Witness ==
  \E i \in Received :
    /\ http[i].req.method = "GET"
    /\ HasPathToken(http[i].req)
    /\ YieldsBearerToken(http[i].req)
    /\ http[i].res.status = 405
    /\ NothingConstructed(i)

\* C16: a GET to /health is answered 200 with the object of status, server
\* name and version, the same whatever the Authorization header, and
\* constructs no client and makes no upstream request.
C16_HealthUnauthenticated ==
  \A i \in Received :
    (http[i].req.method = "GET" /\ http[i].req.path = <<<<"health">>>>) =>
      /\ http[i].res.status = 200
      /\ Members(http[i].res.body) = {<<<<"status">>, JStr(<<"ok">>)>>,
                                      <<<<"server">>, JStr(<<"taxo-mx-mcp">>)>>,
                                      <<<<"version">>, JStr(<<"1.0.0">>)>>}
      /\ NothingConstructed(i)

C16_Witness ==
  \E i \in Received :
    /\ http[i].req.method = "GET"
    /\ http[i].req.path = <<<<"health">>>>
    /\ http[i].req.headers.authorization = JUndefined
    /\ http[i].res.status = 200
    /\ NothingConstructed(i)

\* the non-empty values that follow a --token argument, and the non-empty
\* TAXO_MX_TOKEN
CliValues(p) ==
  {p.argv[k + 1] : k \in {k \in 1 .. Len(p.argv) - 1 :
                            p.argv[k] = <<"--token">> /\ p.argv[k + 1] # <<>>}}

EnvValues(p) ==
  IF p.env.TAXO_MX_TOKEN.t = "str" /\ p.env.TAXO_MX_TOKEN.s # <<>>
  THEN {p.env.TAXO_MX_TOKEN.s} ELSE {}

\* C17: the standard-I/O process serves with the token of the --token
\* argument when one is given and otherwise with the token of
\* TAXO_MX_TOKEN, the same token for every upstream request; when neither
\* gives a token it exits with a non-zero code, having connected no server
\* and served nothing.
C17_StdioToken ==
  /\ proc.stage = "serving" =>
       /\ client # NoClient
       /\ client.token \in (IF CliValues(proc) # {} THEN CliValues(proc) ELSE EnvValues(proc))
       /\ \A k \in 1 .. Len(outbound) :
            outbound[k].headers.Authorization = <<"Bearer ">> \o client.token
  /\ (CliValues(proc) = {} /\ EnvValues(proc) = {}) => proc.stage \in {"start", "exited"}
  /\ proc.stage \in {"start", "exited"} =>
       /\ client = NoClient
       /\ pc = "idle" /\ reply = NoReply /\ outbound = <<>> /\ delivered = <<>>
  /\ proc.stage = "exited" =>
       /\ proc.exitCode # 0
       /\ CliValues(proc) = {} /\ EnvValues(proc) = {}

C17_Witness ==
  /\ proc.stage = "serving"
  /\ CliValues(proc) = {CliToken}
  /\ EnvValues(proc) = {EnvToken}
  /\ Len(outbound) = 1
  /\ outbound[1].headers.Authorization = <<"Bearer ">> \o CliToken

\* the token the sender of a request presented
PresentedToken(req) ==
  IF HasPathToken(req) THEN req.path[2]
  ELSE CHOOSE tok \in HeaderTokens : YieldsBearer(req, tok)

\* C18: whatever the interleaving of the HTTP requests, every upstream
\* request carries the Bearer token of the incoming request that caused it.
C18_OwnTokenOnly ==
  \A i \in Received :
    \A k \in 1 .. Len(http[i].outbound) :
      http[i].outbound[k].headers.Authorization
        = <<"Bearer ">> \o PresentedToken(http[i].req)

C18_Witness ==
  \E i, j \in Received :
    /\ http[i].stage = "fetching"
    /\ http[j].stage = "fetching"
    /\ BoundTo(i, PathToken)
    /\ BoundTo(j, HeaderToken)
    /\ Len(http[i].outbound) = 1
    /\ Len(http[j].outbound) = 1

---------------------------------------------------------------------------
(* Properties of unparseable bodies and of the arguments' way into the URL *)

\* C24: when the upstream answers with a success status and a body that is
\* not JSON, the call made one request and returns an error envelope whose
\* payload has error true and a message, without statusCode and details.
C24_UnparseableSuccessBody ==
  (/\ pc = "replied"
   /\ upstream.kind = "response"
   /\ upstream.status \in 200 .. 299
   /\ upstream.body \in TextBodies) =>
    /\ Len(outbound) = 1
    /\ HasErrorFlag(reply)
    /\ IsErrorObject(Payload(reply).v)
    /\ PayloadFields(reply) = {<<"error">>, <<"message">>}

C24_Witness ==
  /\ pc = "replied"
  /\ upstream.kind = "response"
  /\ upstream.status = 200
  /\ upstream.body = <<"N", "o", "t", " ", "F", "o", "u", "n", "d">>
  /\ Len(outbound) = 1
  /\ HasErrorFlag(reply)
  /\ PayloadFields(reply) = {<<"error">>, <<"message">>}

\* the operations without arguments, with method and path of each
ArgumentLess ==
  {"extract_compliance_opinion_all", "extract_tax_status_all", "get_categories"}

\* C25: a call of an operation without arguments makes its one request
\* whatever arguments it is given; the request has no body and no query
\* string and is the request of the call without arguments.
C25_ArgumentLessIgnoreArgs ==
  (pc # "idle" /\ call.name \in ArgumentLess) =>
    /\ Len(outbound) = 1
    /\ outbound[1].body = JUndefined
    /\ QueryOf(outbound[1].url) = <<>>
    /\ \A i \in 1 .. Len(outbound[1].url) : outbound[1].url[i] # "?"
    /\ outbound[1].url = <<TableRequest(call.name)[1]>> \o TableRequest(call.name)[3]
    /\ outbound[1].method = TableRequest(call.name)[2]
    /\ outbound[1].headers.Authorization = <<"Bearer ">> \o client.token

C25_Witness ==
  /\ pc = "fetching"
  /\ call.name = "extract_compliance_opinion_all"
  /\ call.args # JUndefined
  /\ "limit" \in DOMAIN call.args.f
  /\ call.args.f["limit"] = NotAString
  /\ Len(outbound) = 1
  /\ outbound[1].body = JUndefined

\* the operations that place an argument in the URL path
PathOperations ==
  {"get_compliance_opinion", "get_tax_status", "get_monthly_tax_report", "get_contacts",
   "get_invoices", "create_taxpayer"}

\* the call in the window gives a string, of any content, for every
\* argument it names, and names every required one
AllStrings ==
  /\ call.args # JUndefined
  /\ RequiredKeys(call.name) \subseteq DOMAIN call.args.f
  /\ \A k \in DOMAIN call.args.f : call.args.f[k].t = "str"

IsPrefix(p, s) == Len(p) <= Len(s) /\ SubSeq(s, 1, Len(p)) = p

\* C26: for the operations with an argument in the path every string is
\* accepted, the empty one included, and the path of the one request is the
\* fixed prefix followed by the supplied text, symbol for symbol; only the
\* query of get_invoices may follow it.
C26_PathArgumentsVerbatim ==
  (pc # "idle" /\ call.name \in PathOperations /\ AllStrings) =>
    /\ Len(outbound) = 1
    /\ outbound[1].url[1] = TableRequest(call.name)[1]
    /\ IF call.name = "get_invoices"
       THEN /\ IsPrefix(TableRequest(call.name)[3], Tail(outbound[1].url))
            /\ LET rest == SubSeq(Tail(outbound[1].url),
                                  Len(TableRequest(call.name)[3]) + 1,
                                  Len(outbound[1].url) - 1)
               IN rest = <<>> \/ (Len(rest) > 1 /\ rest[1] = "?")
       ELSE Tail(outbound[1].url) = TableRequest(call.name)[3]

C26_Witness ==
  /\ pc = "fetching"
  /\ call.name = "get_contacts"
  /\ call.args.f["rfc"] = SpecialString
  /\ outbound[1].url
       = <<SecondaryHost, "/api/v1/contacts/", "a", "/", "?", "&", " ", "\"">>
  /\ QueryOf(outbound[1].url) = <<"&", " ", "\"">>

---------------------------------------------------------------------------
(* Properties of the life of an HTTP request *)

\* the requests whose way through the application has ended
Ended == {i \in Received : http[i].stage \in {"done", "failed"}}

\* C21: an authenticated POST has its own client, handler and transport,
\* and when it has ended, by its one exchange or by a failure of the
\* handling, its transport is closed.
C21_TransportAlwaysClosed ==
  \A i \in Received :
    http[i].client # NoClient =>
      /\ http[i].server
      /\ http[i].client.token = PresentedToken(http[i].req)
      /\ http[i].stage = "done" => http[i].message # NoMessage
      /\ i \in Ended => http[i].closed

\* C23: every response carries the three open CORS headers, and an OPTIONS
\* request to any path is answered 200 by the middleware with nothing
\* checked, resolved or constructed.
C23_CorsEverywhere ==
  \A i \in Received :
    /\ http[i].stage = "done" =>
         http[i].res.headers =
           [AccessControlAllowOrigin |-> <<"*">>,
            AccessControlAllowMethods |-> <<"GET, POST, OPTIONS">>,
            AccessControlAllowHeaders |-> <<"Content-Type, Authorization, Accept">>]
    /\ http[i].req.method = "OPTIONS" =>
         /\ http[i].res.status = 200
         /\ NothingConstructed(i)

C23_Witness ==
  \E i, j \in Received :
    /\ http[i].req.method = "OPTIONS" /\ http[i].req.path = <<<<"mcp">>, PathToken>>
    /\ http[i].res.status = 200
    /\ NothingConstructed(i)
    /\ http[j].res.status = 401
    /\ \A l \in {i, j} : http[l].res.headers.AccessControlAllowOrigin = <<"*">>

---------------------------------------------------------------------------
(* Properties of the order of the standard-I/O tool calls *)

\* C22: the standard-I/O server serves its tool calls one at a time in the
\* order of arrival: the upstream request of a later call is not issued
\* before the earlier call has its envelope, and the envelopes are written
\* in the order of arrival.
C22_OneCallAtATime ==
  /\ \A i, j \in 1 .. MaxPipelined :
       (i < j /\ pipeline.calls[j].outbound # <<>>) => pipeline.calls[i].stage = "answered"
  /\ \A a, b \in 1 .. Len(pipeline.stdout) :
       a < b => pipeline.stdout[a] < pipeline.stdout[b]

=============================================================================
